---- MODULE Spec2Model ----
(***************************************************************************)
(* Orochi: the distributed plugin execution pipeline.                      *)
(*                                                                         *)
(* State machine of src/orochi/utils/volatility_dask_elk.py                *)
(* (unzip_then_run, run_plugin, run_vt, run_regipy, check_runnable,        *)
(* get_banner, gendata, send_to_ws), of the Django rows of                 *)
(* src/orochi/website/models.py (Dump, Plugin, Result, ExtractedDump, the  *)
(* new_plugin signal) and of the plugins_sync management command.          *)
(*                                                                         *)
(* Strings that the code takes apart are sequences of tokens: a plugin     *)
(* name "a.b.C" is <<"a", "b", "C">>, a banner is the sequence of the      *)
(* fields BANNER_REGEX separates, with the quote a token of its own.       *)
(***************************************************************************)
EXTENDS Naturals, FiniteSets, Sequences, Bags, TLC

(***************************************************************************)
(* Bounds of the model.                                                    *)
(***************************************************************************)
MaxRows == 2
MaxFiles == 1
MaxRestarts == 2

(***************************************************************************)
(* models.py: status codes.                                                *)
(***************************************************************************)
DUMP_STATUS_CREATED == 1
DUMP_STATUS_COMPLETED == 2
DUMP_STATUS_DELETED == 3
DUMP_STATUS_ERROR == 4

RESULT_STATUS_RUNNING == 0
RESULT_STATUS_EMPTY == 1
RESULT_STATUS_SUCCESS == 2
RESULT_STATUS_UNSATISFIED == 3
RESULT_STATUS_ERROR == 4
RESULT_STATUS_DISABLED == 5

OPERATING_SYSTEM == {"Linux", "Windows", "Mac", "Other"}

TerminalStates ==
  {RESULT_STATUS_EMPTY, RESULT_STATUS_SUCCESS, RESULT_STATUS_UNSATISFIED,
   RESULT_STATUS_ERROR, RESULT_STATUS_DISABLED}

(***************************************************************************)
(* The dumps of the store and the plugin names of the engine's catalog.    *)
(***************************************************************************)
DumpIds == {"d1", "d2"}

BANNERS == <<"banners", "Banners">>
LAYERWRITER == <<"layerwriter", "LayerWriter">>
TIMELINER == <<"timeliner", "Timeliner">>
PSLIST == <<"linux", "pslist", "PsList">>

\* framework.list_plugins(): what the analysis engine offers
available_plugins == {BANNERS, LAYERWRITER, TIMELINER, PSLIST}

\* the Plugin rows present when the dumps were created
installed_plugins == {BANNERS, LAYERWRITER, TIMELINER}

\* Command.handle: the operating system of a new plugin, from its name prefix
OsFromName(name) ==
  IF Head(name) = "linux" THEN "Linux"
  ELSE IF Head(name) = "windows" THEN "Windows"
  ELSE IF Head(name) = "mac" THEN "Mac"
  ELSE "Other"

\* a Plugin row as Command.handle creates it: every flag at its default
PluginRow(name) ==
  [name |-> name,
   operating_system |-> OsFromName(name),
   disabled |-> FALSE,
   local_dump |-> FALSE,
   clamav_check |-> FALSE,
   vt_check |-> FALSE,
   regipy_check |-> FALSE]

\* get_user_model().objects.all()
Users == {"u1", "u2"}

\* the UserPlugin rows of users who have one row for each plugin of names,
\* automatic but for the plugins of manual
UserPlugins(names, manual) ==
  SetToBag({[user |-> u, plugin |-> n, automatic |-> n \notin manual] :
              u \in Users, n \in names})

\* the row of the file-dumping plugin after the administrator set its flags
DumpingPluginRow(name, regipy_check) ==
  [PluginRow(name) EXCEPT !.local_dump = TRUE, !.clamav_check = TRUE,
                          !.vt_check = TRUE, !.regipy_check = regipy_check]

\* str.lower() on the tokens of the catalog's names
LowerToken(t) ==
  CASE t = "Banners" -> "banners"
    [] t = "LayerWriter" -> "layerwriter"
    [] t = "Timeliner" -> "timeliner"
    [] t = "PsList" -> "pslist"
    [] OTHER -> t

Lower(name) == [i \in 1..Len(name) |-> LowerToken(name[i])]

\* "{}_{}".format(dump_obj.index, plugin_obj.name.lower())
IndexName(dump_index, name) == <<dump_index, Lower(name)>>

(***************************************************************************)
(* Banners.                                                                *)
(***************************************************************************)
QUOTE == "\""
NUL == "\\n\\00"
KERNEL_KNOWN == "5.4.0-42-generic"
KERNEL_UNKNOWN == "5.8.0-63-generic"

\* the fields of a banner that BANNER_REGEX separates
BUILD ==
  [amd64 |-> "(buildd@lgw01-amd64-038)",
   arm64 |-> "(buildd@bos02-arm64-010)",
   i386 |-> "(buildd@lgw01-i386-021)",
   noarch |-> "(root@localhost)"]

GCC ==
  [ubuntu |-> "(gcc version 9.3.0 (Ubuntu 9.3.0-10ubuntu2))",
   debian |-> "(gcc version 8.3.0 (Debian 8.3.0-6))",
   other |-> "(gcc version 8.3.1 20190507 (Red Hat 8.3.1-4))"]

INFO ==
  [ubuntu |-> "-Ubuntu SMP",
   debian |-> " SMP Debian 4.19.132-1",
   other |-> " SMP"]

DEBIAN_VERSION == "4.19.132-1"

Banner(kernel, build, gcc, info) ==
  <<"Linux version", kernel, build, gcc, "#46", info>>

BannerOf(kernel) == Banner(kernel, BUILD.amd64, GCC.ubuntu, INFO.ubuntu)

\* a string that is no Linux banner
NoBanner == <<"Darwin Kernel Version", "19.6.0">>

\* the default renderer quotes a string column
Quoted(s) == <<QUOTE>> \o s \o <<QUOTE>>

GccTokens == {GCC.ubuntu, GCC.debian, GCC.other}
NumberTokens == {"#46"}

\* re.match(BANNER_REGEX, banner): the groups, or <<>> when there is no match
RECURSIVE MatchBanner(_)
MatchBanner(s) ==
  IF s # <<>> /\ Head(s) = QUOTE THEN MatchBanner(Tail(s))
  ELSE IF Len(s) >= 6 /\ s[1] = "Linux version" /\ s[4] \in GccTokens
          /\ s[5] \in NumberTokens
       THEN <<[kernel |-> s[2], build |-> s[3], gcc |-> s[4], number |-> s[5],
               info |-> s[6]]>>
       ELSE <<>>

\* str.strip("\"'")
RECURSIVE LStrip(_)
LStrip(s) == IF s # <<>> /\ Head(s) = QUOTE THEN LStrip(Tail(s)) ELSE s

RECURSIVE RStrip(_, _)
RStrip(s, chars) ==
  IF s # <<>> /\ s[Len(s)] \in chars THEN RStrip(SubSeq(s, 1, Len(s) - 1), chars)
  ELSE s

Strip(s) == RStrip(LStrip(s), {QUOTE})

IsPrefix(s, t) == Len(s) <= Len(t) /\ s = SubSeq(t, 1, Len(s))

\* automagic LinuxSymbolFinder.banners: the banners of the local symbol tables
SymbolBanners == {BannerOf(KERNEL_KNOWN) \o <<NUL>>, <<>>}

\* the automagics of the context, with the symbol finder among them
LinuxSymbolFinder ==
  [config_path |-> "automagic.LinuxSymbolFinder", banners |-> SymbolBanners]

LayerStacker == [config_path |-> "automagic.LayerStacker", banners |-> {}]

\* a gate that takes a banner it cannot parse for a match
check_runnable_open(automagics, operating_system, banner) ==
  IF operating_system = "Windows" THEN TRUE
  ELSE IF operating_system = "Mac" THEN TRUE
  ELSE IF operating_system = "Linux" THEN
    IF banner = <<>> THEN FALSE
    ELSE LET m == MatchBanner(banner)
         IN m = <<>> \/ \E x \in automagics : \E active_banner \in x.banners :
                          /\ active_banner # <<>>
                          /\ MatchBanner(RStrip(active_banner, {NUL})) # <<>>
  ELSE FALSE

\* a gate that refuses nothing but a Linux dump without banner
check_runnable_linux(automagics, operating_system, banner) ==
  operating_system # "Linux" \/ banner # <<>>

\* check_runnable(dump_pk, operating_system, banner), with the automagics
\* that automagic.available(ctx) gives; banner <<>> is None
check_runnable(automagics, operating_system, banner) ==
  IF operating_system = "Windows" THEN TRUE
  ELSE IF operating_system = "Mac" THEN TRUE
  ELSE IF operating_system = "Linux" THEN
    IF banner = <<>> THEN FALSE
    ELSE LET m == MatchBanner(banner)
             dump_kernel == IF m # <<>> THEN <<m[1].kernel>> ELSE <<>>
             banners == {x \in automagics :
                           x.config_path = "automagic.LinuxSymbolFinder"}
         IN \E x \in banners : \E active_banner \in x.banners :
              /\ active_banner # <<>>
              /\ LET a == MatchBanner(RStrip(active_banner, {NUL}))
                 IN a # <<>> /\ <<a[1].kernel>> = dump_kernel
  ELSE FALSE

(***************************************************************************)
(* The analysis engine: what plugins.construct_plugin, constructed.run()   *)
(* and the renderer give for one (dump, plugin).  It is deterministic: the *)
(* state variable engine fixes it per pair.                                *)
(***************************************************************************)
None == "None"

\* the JSONField values of an ExtractedDump row: null, or a document
Null == [json |-> "null"]

\* the rows ReturnJsonRenderer.render makes of a grid of n top-level nodes
Rows(n) == [i \in 1..n |-> [row |-> i, Banner |-> <<>>]]

BannerRow(banner) == <<[row |-> 1, Banner |-> Quoted(banner)]>>

BannerRows(kernel) == BannerRow(BannerOf(kernel))

\* the files the plugin closed on its file handler (file_list)
Files(k) == 1..k

\* the requirements construct_plugin reports as unsatisfied, by config path
Unsatisfied ==
  <<[config_path |-> "plugins.LayerWriter.primary",
     description |-> "Memory layer for the kernel"],
    [config_path |-> "plugins.LayerWriter.nt_symbols",
     description |-> "Windows kernel symbols"]>>

\* what the engine does with a plugin: the requirements it misses, the rows
\* it renders, the files it writes, the error of the rendering
Outcome(kind, rows, files) ==
  [kind |-> kind, rows |-> rows, files |-> files,
   unsatisfied |-> IF kind = "unsatisfied" THEN Unsatisfied ELSE <<>>,
   error |-> None]

\* the same outcome, grid.populate returning the error of a row that could
\* not be rendered
Populated(o) == [o EXCEPT !.error = "InvalidAddressException"]

EngineOutcomes(name) ==
  IF name = BANNERS
    THEN {Outcome("rows", <<>>, {}),
          Outcome("rows", BannerRows(KERNEL_KNOWN), {}),
          Populated(Outcome("rows", BannerRows(KERNEL_UNKNOWN), {})),
          Outcome("hang", <<>>, {})}
  ELSE IF name = LAYERWRITER
    THEN {Outcome("unsatisfied", <<>>, {}),
          Outcome("error", <<>>, {}),
          Populated(Outcome("rows", <<>>, Files(MaxFiles))),
          Outcome("rows", Rows(MaxRows), Files(MaxFiles))}
  ELSE {Outcome("rows", Rows(MaxRows), {})}

(***************************************************************************)
(* State.                                                                  *)
(***************************************************************************)
VARIABLES
  dumps,        \* Dump rows, by dump
  plugins,      \* Plugin rows
  user_plugins, \* UserPlugin rows, a bag of (user, plugin)
  results,      \* Result rows
  extracted,    \* ExtractedDump rows
  es,           \* the documents of the index engine
  es_settings,  \* the partitions whose max_result_window was put
  engine,       \* the engine's outcome per (dump, plugin)
  orch,         \* unzip_then_run, per dump
  task,         \* run_plugin, per (dump, plugin)
  sub,          \* run_vt / run_regipy, per (dump, plugin, file, analyzer)
  env           \* what the collaborators and the callers may do in this run

vars ==
  <<dumps, plugins, user_plugins, results, extracted, es, es_settings,
    engine, orch, task, sub, env>>

\* Dump.objects: the dumps of the store
Dumps == DOMAIN dumps

Analyzers == {"vt", "regipy"}

SubKeys == {LAYERWRITER} \X Files(MaxFiles) \X Analyzers

\* local_path/preferred_filename: MEDIA_ROOT/<dump.index>/<plugin.name>/<file>
Path(d, name, f) == <<d, name, f>>

\* automagic.available(ctx): the symbol finder is there unless the engine
\* was installed without it
automagic_available ==
  IF "finder" \in env THEN {LayerStacker}
  ELSE {LayerStacker, LinuxSymbolFinder}

(***************************************************************************)
(* Row access.                                                             *)
(***************************************************************************)
\* Plugin.objects.get(name=...)
PluginByName(name) == CHOOSE p \in plugins : p.name = name

\* dump.result_set: the Result rows of a dump
result_set(d) == {r \in results : r.dump = d}

HasResult(d, name) == \E r \in results : r.dump = d /\ r.plugin = name

\* Result.objects.get(plugin=plugin_obj, dump=dump_obj)
ResultOf(d, name) == CHOOSE r \in results : r.dump = d /\ r.plugin = name

\* result.result = st; result.save()
SaveResult(rs, d, name, st) ==
  {IF r.dump = d /\ r.plugin = name THEN [r EXCEPT !.result = st] ELSE r :
     r \in rs}

\* a join that keeps the last line only
Join_last(lines) == IF lines = <<>> THEN "" ELSE lines[Len(lines)]

\* "\n".join(lines)
RECURSIVE Join(_)
Join(lines) ==
  IF lines = <<>> THEN ""
  ELSE IF Len(lines) = 1 THEN lines[1]
  ELSE lines[1] \o "\n" \o Join(Tail(lines))

\* traceback.TracebackException.from_exception(excp).format(chain=True)
fulltrace(excp) == <<"Traceback (most recent call last):", excp>>

\* a save that writes the state of every Result of the dump
SaveDescribed_all(rs, d, name, st, description) ==
  {IF r.dump = d THEN [r EXCEPT !.result = st, !.description = description]
   ELSE r : r \in rs}

\* result.result = st; result.description = description; result.save()
SaveDescribed(rs, d, name, st, description) ==
  {IF r.dump = d /\ r.plugin = name
     THEN [r EXCEPT !.result = st, !.description = description]
   ELSE r : r \in rs}

MaxPk(rs) == IF rs = {} THEN 0
             ELSE CHOOSE n \in {r.pk : r \in rs} : \A r \in rs : r.pk <= n

(***************************************************************************)
(* Init: the state after the upload view created the dump.  "results       *)
(* already exists because all plugin results are created when dump is      *)
(* created": one Result per installed plugin of the dump's operating       *)
(* system or of "Other", Running (the model default) or Disabled (a plugin *)
(* the user did not select).                                               *)
(***************************************************************************)
InitialPk(name) ==
  CASE name = BANNERS -> 1 [] name = LAYERWRITER -> 2 [] OTHER -> 3

\* the AutoField of Result counts on from one dump to the next
PkBase(d) == IF d = "d1" THEN 0 ELSE Cardinality(installed_plugins)

\* what a restart remembers of the restart before it
NoPrev == [restart |-> {}, states |-> <<>>, faults |-> {}]

\* params=None, and the empty mapping: `if params` is false for both
NoParams == {}

\* a run_plugin call: where it is, its params (the items of the mapping),
\* whether it collects files (local_dump), the plugin options it put into
\* ctx.config, the fan-out it submitted, the steps it has taken so far and
\* the exception its outer handler caught
NoTask ==
  [pc |-> "none", params |-> NoParams, local_dump |-> FALSE,
   config |-> {}, tasks |-> {}, steps |-> <<>>, exc |-> None,
   sent |-> <<>>, match |-> {}]

\* dask_client.submit(run_plugin, dump, plugin, params, user_pk)
Submit(params) == [NoTask EXCEPT !.pc = "start", !.params = params]

StartTask == Submit(NoParams)
NoSub == [pc |-> "none", out |-> None, report |-> Null, row |-> Null]

\* the events of the environment: "ws" the channel layer fails, "clamd" the
\* antivirus socket fails, "es" the index engine fails, "vt" the reputation
\* service fails, "regipy" a hive does not parse, "finder" the engine has no
\* symbol finder, "index" the package index misbehaves, "archive" the upload
\* is an archive, "restart" the caller restarts plugins, "sync" the
\* administrator runs plugins_sync, "params" a user runs a plugin with
\* parameters, "workers2" the worker has two threads
Events ==
  {"ws", "clamd", "es", "vt", "regipy", "finder", "index", "archive",
   "restart", "sync", "params", "workers2"}

\* the events that are a collaborator failing
Faults == {"ws", "clamd", "es", "vt", "regipy"}

InitRows(ds, os_set, engines, dumping, manual) ==
  /\ \E os \in [ds -> os_set] :
       dumps = [d \in ds |-> [name |-> <<"dump", d>>,
                              operating_system |-> os[d],
                              banner |-> <<>>,
                              upload |-> <<"uploads", d>>,
                              status |-> DUMP_STATUS_CREATED,
                              missing_symbols |-> FALSE,
                              sha256 |-> None,
                              suggested_symbols_path |-> <<>>]]
  /\ plugins = {PluginRow(BANNERS), PluginRow(TIMELINER), dumping}
  /\ user_plugins = UserPlugins(installed_plugins, manual)
  /\ results = {[pk |-> PkBase(d) + InitialPk(n), dump |-> d, plugin |-> n,
                 result |-> IF n \in manual THEN RESULT_STATUS_DISABLED
                            ELSE RESULT_STATUS_RUNNING,
                 description |-> None] :
                  d \in Dumps, n \in installed_plugins}
  /\ extracted = {}
  /\ es = {}
  /\ es_settings = {}
  /\ engine \in [Dumps -> engines]
  /\ orch = [d \in Dumps |-> [pc |-> "idle", restart |-> {}, tasks |-> {},
                              restarts |-> 0, exc |-> None, gate |-> None,
                              faults |-> {}, prev |-> NoPrev, completed |-> 0,
                              upload |-> None, sent |-> <<>>]]
  /\ task = [d \in Dumps |-> [n \in available_plugins |-> NoTask]]
  /\ sub = [d \in Dumps |-> [k \in SubKeys |-> NoSub]]

\* the store with the file-dumping plugin scanning its files and looking
\* them up
InitStoreOf(ds, os_set, engines, regipy_check) ==
  InitRows(ds, os_set, engines, DumpingPluginRow(LAYERWRITER, regipy_check),
           {TIMELINER})

\* one dump in the store
InitStore(os_set, engines, regipy_check) ==
  InitStoreOf({"d1"}, os_set, engines, regipy_check)

\* every combination of the engine's outcomes
Engines ==
  {e \in [available_plugins ->
            UNION {EngineOutcomes(n) : n \in available_plugins}] :
     \A n \in available_plugins : e[n] \in EngineOutcomes(n)}

\* the engine that renders rows for every plugin and finds a known banner
EngineRows ==
  {e \in Engines : /\ e[BANNERS].rows = BannerRows(KERNEL_KNOWN)
                   /\ e[LAYERWRITER].rows # <<>>}

\* first runs on every operating system and engine, any collaborator failing
InitFirst ==
  /\ InitStore(OPERATING_SYSTEM, Engines, FALSE)
  /\ env = {"ws", "clamd", "es", "vt"}

\* the fan-out with both analyzers on one file
InitFanout ==
  /\ InitStore({"Windows"}, EngineRows, TRUE)
  /\ env \in {{"vt"}, {"regipy"}, {"restart"}}

\* the file-dumping plugin with every setting of its three checks
InitChecks ==
  /\ \E clamav_check, vt_check, regipy_check \in BOOLEAN :
       InitRows({"d1"}, {"Windows"}, EngineRows,
                [PluginRow(LAYERWRITER) EXCEPT
                   !.local_dump = TRUE, !.clamav_check = clamav_check,
                   !.vt_check = vt_check, !.regipy_check = regipy_check],
                {TIMELINER})
  /\ env = {}

\* users who left the banner plugin manual (UserPlugin.automatic unset): its
\* Result is created Disabled
InitManual ==
  /\ InitRows({"d1"}, {"Linux", "Mac"}, EngineRows,
              DumpingPluginRow(LAYERWRITER, FALSE), {BANNERS, TIMELINER})
  /\ env \in {{}, {"restart"}}

\* restarts, and plugins_sync at any moment, on every engine; restarts with a
\* collaborator failing, on the engine that renders rows and files
InitRestart ==
  \/ /\ InitStore(OPERATING_SYSTEM, Engines, FALSE)
     /\ env \in {{"restart"}, {"restart", "sync"}}
  \/ /\ InitStore(OPERATING_SYSTEM, EngineRows, FALSE)
     /\ env \in {{"restart", "clamd"}, {"restart", "ws"}, {"restart", "es"}}

\* two dumps uploaded together, processed on the same worker pool
InitTwo ==
  /\ InitStoreOf(DumpIds, {"Windows"}, EngineRows, FALSE)
  /\ env = {}

\* the banners a Linux dump may hold: of Ubuntu, Debian and other kernels,
\* with and without the architecture, and a string that is no banner
LinuxBanners ==
  {BannerOf(KERNEL_KNOWN),
   BannerOf(KERNEL_UNKNOWN),
   Banner(KERNEL_UNKNOWN, BUILD.noarch, GCC.ubuntu, INFO.ubuntu),
   Banner(KERNEL_UNKNOWN, BUILD.amd64, GCC.debian, INFO.debian),
   Banner(KERNEL_UNKNOWN, BUILD.amd64, GCC.other, INFO.other),
   NoBanner}

\* the engine that renders rows for every plugin and finds one of the banners
EnginesBanner ==
  {[e EXCEPT ![BANNERS] = Outcome("rows", BannerRow(b), {})] :
     e \in EngineRows, b \in LinuxBanners}
  \cup {[e EXCEPT ![BANNERS] = Outcome("rows", <<>>, {})] : e \in EngineRows}

\* the gate of a Linux dump: the symbol finder missing, the package index
\* misbehaving
InitGate ==
  /\ InitStore({"Linux"}, EnginesBanner, FALSE)
  /\ env \in {{"finder"}, {"index"}}

\* the archives of an upload
InitArchive ==
  /\ InitStore({"Windows"}, EngineRows, FALSE)
  /\ env = {"archive"}

Init ==
  \/ InitFirst \/ InitFanout \/ InitRestart \/ InitTwo \/ InitGate
  \/ InitArchive \/ InitChecks \/ InitManual

(***************************************************************************)
(* send_to_ws: the notification either goes out or raises (channel layer   *)
(* unreachable); the caller continues on TRUE and gets the exception on    *)
(* FALSE.                                                                  *)
(***************************************************************************)
send_to_ws == IF "ws" \in env THEN {TRUE, FALSE} ELSE {TRUE}

\* lines 329-337: the message that went out names the plugin, the dump and
\* the status of the Result row handed to send_to_ws
Notify(sent, d, name) ==
  Append(sent, [plugin |-> name, dump |-> d,
                status |-> ResultOf(d, name).result])

(***************************************************************************)
(* unzip_then_run(dump_pk, user_pk, password, restart)                     *)
(***************************************************************************)
Finished(t) == t.pc \in {"none", "done", "failed"}

\* no task or sub-task of the dump is on the worker pool
Quiescent(d) ==
  /\ \A n \in available_plugins : Finished(task[d][n])
  /\ \A k \in SubKeys : Finished(sub[d][k])

\* a task list that forgets the restart filter
tasks_list_all(d, restart) ==
  IF dumps[d].operating_system # "Linux" THEN result_set(d)
  ELSE {r \in result_set(d) : r.plugin # BANNERS}

\* lines 880-886: the Result rows the run is about
tasks_list(d, restart) ==
  LET all == IF dumps[d].operating_system # "Linux" THEN result_set(d)
             ELSE {r \in result_set(d) : r.plugin # BANNERS}
  IN IF restart # {} THEN {r \in all : r.plugin \in restart} ELSE all

\* lines 887-892: one run_plugin task per Result that is not Disabled
Dispatched(d, restart) ==
  {r.plugin : r \in {x \in tasks_list(d, restart) :
                       x.result # RESULT_STATUS_DISABLED}}

\* the files 7z leaves in extract_path, <<stem, extension>> each
RAW ==
  [bin |-> <<"memory", ".bin">>,
   dmp |-> <<"pagefile", ".dmp">>,
   vmem |-> <<"memory", ".vmem">>,
   VMEM |-> <<"SNAPSHOT", ".VMEM">>]

\* the upload: a raw image (no archive), or an archive and the files in it;
\* the archives vary with the event "archive"
RawImage == [archive |-> FALSE, files |-> <<>>]
Archive(files) == [archive |-> TRUE, files |-> files]

Uploads ==
  IF "archive" \in env
    THEN {RawImage, Archive(<<>>), Archive(<<RAW.bin>>),
          Archive(<<RAW.bin, RAW.dmp>>), Archive(<<RAW.bin, RAW.vmem>>),
          Archive(<<RAW.VMEM, RAW.bin>>),
          Archive(<<RAW.vmem, RAW.VMEM>>)}
    ELSE {RawImage, Archive(<<>>)}

\* x.lower().endswith(".vmem")
EndsWithVmem(x) == x[2] \in {".vmem", ".VMEM"}

\* a selection that takes the first file of the archive
newpath_first(extracted_files) ==
  IF Len(extracted_files) >= 1 THEN <<extracted_files[1]>> ELSE <<>>

\* lines 832-841: newpath, <<>> for None: the only file, or among several
\* the last one that is a .vmem
newpath(extracted_files) ==
  IF Len(extracted_files) = 1 THEN <<extracted_files[1]>>
  ELSE IF Len(extracted_files) > 1
    THEN LET hits == {i \in 1..Len(extracted_files) :
                        EndsWithVmem(extracted_files[i])}
         IN IF hits = {} THEN <<>>
            ELSE <<extracted_files[CHOOSE i \in hits :
                                     \A j \in hits : j <= i]>>
  ELSE <<>>

\* lines 800-866, first call: artifact preparation, then the banner plugin
unzip_then_run_prepare(d) ==
  /\ orch[d].pc = "idle"
  /\ \E upload \in Uploads :
       LET path == IF upload.archive THEN newpath(upload.files)
                   ELSE <<dumps[d].upload>>
       IN IF path = <<>>
         THEN \* "archive is unvalid"
              /\ dumps' = [dumps EXCEPT ![d].status = DUMP_STATUS_ERROR]
              /\ orch' = [orch EXCEPT ![d].pc = "returned",
                                       ![d].upload = upload]
              /\ UNCHANGED <<results, task, env>>
         ELSE /\ dumps' = [dumps EXCEPT ![d].upload = path[1],
                                        ![d].sha256 = "sha256"]
              /\ IF dumps[d].operating_system \in {"Linux", "Mac"}
                   THEN /\ results' = SaveResult(results, d, BANNERS,
                                                 RESULT_STATUS_RUNNING)
                        /\ task' = [task EXCEPT ![d][BANNERS] = StartTask]
                        /\ orch' = [orch EXCEPT ![d].pc = "banner",
                                                 ![d].upload = upload]
                   ELSE /\ orch' = [orch EXCEPT ![d].pc = "gate",
                                                 ![d].upload = upload]
                        /\ UNCHANGED <<results, task, env>>
  /\ UNCHANGED <<plugins, user_plugins, extracted, es, es_settings, engine,
                 sub, env>>

\* the states a run left in the Results it was about, and what could fail
\* while it ran
Outcomes(d, restart, faults) ==
  [restart |-> restart,
   states |-> [n \in restart |-> ResultOf(d, n).result],
   faults |-> faults]

\* the plugin selections a restart is asked for: one plugin, or one plugin
\* together with a disabled one
RestartRequests == {{BANNERS}, {LAYERWRITER}, {LAYERWRITER, TIMELINER}}

\* lines 800-804 with restart: a later call re-running the plugins of restart
unzip_then_run_restart(d) ==
  /\ orch[d].pc \in {"returned", "raised"}
  /\ Quiescent(d)
  /\ "restart" \in env
  /\ orch[d].restarts < MaxRestarts
  /\ \E restart \in RestartRequests :
       orch' = [orch EXCEPT ![d] =
                  [pc |-> "gate", restart |-> restart, tasks |-> {},
                   restarts |-> @.restarts + 1, exc |-> None, gate |-> None,
                   faults |-> env \cap Faults,
                   prev |-> IF @.restart # {} /\ @.pc = "returned"
                              THEN Outcomes(d, @.restart, @.faults)
                              ELSE NoPrev,
                   completed |-> 0, upload |-> @.upload, sent |-> <<>>]]
  /\ UNCHANGED <<dumps, plugins, user_plugins, results, extracted, es,
                 es_settings, engine, task, sub, env>>

\* a search that finds no hit
get_banner_unread(d) == {<<>>}

\* get_banner(result): the Banner of the first hit of the plugin's partition
get_banner(d) ==
  LET hits == {doc \in es : doc.index = IndexName(d, BANNERS)}
  IN IF hits = {} THEN {<<>>} ELSE {doc.source.Banner : doc \in hits}

\* lines 866-874: run_plugin(dump, banner.plugin) came back; read the banner
unzip_then_run_banner(d) ==
  /\ orch[d].pc = "banner"
  /\ \/ /\ task[d][BANNERS].pc = "done"
        /\ \E banner_result \in get_banner(d) :
             dumps' = [dumps EXCEPT ![d].banner =
                         IF banner_result # <<>> THEN Strip(banner_result)
                         ELSE @]
        /\ orch' = [orch EXCEPT ![d].pc = "gate"]
     \/ /\ task[d][BANNERS].pc = "failed"
        /\ orch' = [orch EXCEPT ![d].pc = "raised", ![d].exc = "run_plugin"]
        /\ UNCHANGED dumps
  /\ UNCHANGED <<plugins, user_plugins, results, extracted, es, es_settings,
                 engine, task, sub, env>>

\* lines 876-892: the gate holds (or restart): submit the tasks
unzip_then_run_dispatch(d) ==
  /\ orch[d].pc = "gate"
  /\ \/ orch[d].restart # {}
     \/ check_runnable(automagic_available, dumps[d].operating_system,
                       dumps[d].banner)
  /\ LET ts == Dispatched(d, orch[d].restart)
     IN /\ task' = [task EXCEPT ![d] =
                      [n \in available_plugins |->
                         IF n \in ts THEN StartTask ELSE task[d][n]]]
        /\ orch' = [orch EXCEPT ![d].pc = "gather", ![d].tasks = ts,
                                 ![d].gate = "eligible"]
  /\ UNCHANGED <<dumps, plugins, user_plugins, results, extracted, es,
                 es_settings, engine, sub, env>>

\* a gather that comes back before the tasks do
gather_nowait(d, ts) == TRUE

\* a gather that takes the tasks of any dump for its own
gather_any(d, ts) == \E x \in Dumps : \A n \in ts : task[x][n].pc = "done"

\* line 893: dask_client.gather(tasks) has every task's return value
gather(d, ts) == \A n \in ts : task[d][n].pc = "done"

\* lines 893-897: dask_client.gather(tasks), then Completed
unzip_then_run_gather(d) ==
  /\ orch[d].pc = "gather"
  /\ \/ /\ gather(d, orch[d].tasks)
        /\ dumps' = [dumps EXCEPT ![d].status = DUMP_STATUS_COMPLETED]
        /\ orch' = [orch EXCEPT ![d].pc = "returned",
                                 ![d].completed = @ + 1]
     \/ /\ \E n \in orch[d].tasks : task[d][n].pc = "failed"
        /\ orch' = [orch EXCEPT ![d].pc = "raised", ![d].exc = "gather"]
        /\ UNCHANGED dumps
  /\ UNCHANGED <<plugins, user_plugins, results, extracted, es, es_settings,
                 engine, task, sub, env>>

(***************************************************************************)
(* get_path_from_banner(banner).  A href is the sequence of its parts       *)
(* between "_", a part the sequence of its tokens between "-" and ".";      *)
(* str.find is the search of a needle at the head of a part.  The value is  *)
(* a list of records: a download URL or a placeholder hint.                 *)
(***************************************************************************)
Url(href) == <<[kind |-> "url", text |-> href]>>
Hint(text) == <<[kind |-> "hint", text |-> <<<<text>>>>]>>

\* an exception on its way out of the function
Raised == <<[kind |-> "raised", text |-> <<>>]>>

OS_WIP == "[OS wip] insert here symbols url!"
DOWNLOAD_FAIL == "[Download fail] insert here symbols url!"
BANNER_PARSE_FAIL == "[Banner parse fail] insert here symbols url!"

\* href.find(needle) != -1
Find(href, needle) == \E i \in 1..Len(href) : IsPrefix(needle, href[i])

\* "ubuntu" in token.lower(), "debian" in token.lower()
Words(token) ==
  CASE token \in {GCC.ubuntu, INFO.ubuntu} -> {"ubuntu"}
    [] token \in {GCC.debian, INFO.debian} -> {"debian"}
    [] OTHER -> {}

\* banner.lower().find(arch) != -1, for amd64, arm64, i386 in that order
Arch(banner) ==
  IF \E i \in 1..Len(banner) : banner[i] = BUILD.amd64 THEN <<"amd64">>
  ELSE IF \E i \in 1..Len(banner) : banner[i] = BUILD.arm64 THEN <<"arm64">>
  ELSE IF \E i \in 1..Len(banner) : banner[i] = BUILD.i386 THEN <<"i386">>
  ELSE <<>>

\* m["info"].find(p_info) != -1
InfoFind(info, p_info) == info = INFO.debian /\ p_info = <<DEBIAN_VERSION>>

\* the anchors of the package index, the answers of requests.get(url)
Anchor(href) == [href |-> href]

\* the hrefs of a kernel's packages: of Ubuntu, signed and unsigned, of
\* Debian, and one of Debian that has no "_" in it
Href(package, kernel) ==
  CASE package = "ubuntu" ->
         <<<<"linux-image", kernel, "dbgsym">>, <<"5.8.0-63.71">>,
           <<"amd64", "ddeb">>>>
    [] package = "unsigned" ->
         <<<<"linux-image-unsigned", kernel, "dbgsym">>, <<"5.8.0-63.71">>,
           <<"amd64", "ddeb">>>>
    [] package = "debian" ->
         <<<<"linux-image", kernel, "dbg">>, <<DEBIAN_VERSION>>,
           <<"amd64", "deb">>>>
    [] OTHER -> <<<<"linux-image", kernel, "dbg">>>>

Unreachable == [kind |-> "unreachable", anchors |-> <<>>]
Page(anchors) == [kind |-> "page", anchors |-> anchors]

\* the package index: it answers with the packages of the kernel, or (event
\* "index") it is unreachable, or its page is empty, has anchors without
\* href, of other kernels, or malformed
PackageIndex(kernel) ==
  IF "index" \in env
    THEN {Unreachable,
          Page(<<>>),
          Page(<<Anchor(<<>>), Anchor(Href("ubuntu", KERNEL_KNOWN))>>),
          Page(<<Anchor(Href("malformed", kernel)), Anchor(Href("debian", kernel))>>),
          Page(<<Anchor(<<>>), Anchor(Href("unsigned", kernel))>>),
          Page(<<Anchor(Href("ubuntu", kernel)), Anchor(Href("debian", kernel))>>)}
    ELSE {Page(<<Anchor(Href("ubuntu", kernel)), Anchor(Href("debian", kernel))>>)}

\* requests.get(url).text and BeautifulSoup(...).find_all("a")
find_all(index) == IF index.kind = "unreachable" THEN Raised ELSE index.anchors

\* lines 669-681: the first anchor of the package, or of its alternative
RECURSIVE ubuntu_links(_, _, _, _)
ubuntu_links(anchors, package_name, package_alternative_name, arch) ==
  IF anchors = <<>> THEN <<>>
  ELSE LET href == Head(anchors).href
       IN IF href # <<>> /\ Find(href, package_name) /\ Find(href, arch)
            THEN Url(href)
          ELSE IF href # <<>> /\ Find(href, package_alternative_name)
                  /\ Find(href, arch)
            THEN Url(href)
          ELSE ubuntu_links(Tail(anchors), package_name,
                            package_alternative_name, arch)

\* lines 700-715: the first anchor of the package; its three parts are
\* compared, and an anchor that has not three parts raises in the unpacking
RECURSIVE debian_links(_, _, _, _)
debian_links(anchors, package_name, info, arch) ==
  IF anchors = <<>> THEN <<>>
  ELSE LET href == Head(anchors).href
       IN IF href # <<>> /\ Find(href, package_name)
            THEN IF Len(href) # 3 THEN Hint(DOWNLOAD_FAIL)
                 ELSE IF /\ IsPrefix(package_name, href[1])
                         /\ InfoFind(info, href[2])
                         /\ <<Head(href[3])>> = arch
                   THEN Url(href)
                 ELSE debian_links(Tail(anchors), package_name, info, arch)
          ELSE debian_links(Tail(anchors), package_name, info, arch)

\* try: ... except: return handler
Except(value, handler) == IF value = Raised THEN handler ELSE value

\* a lookup whose exceptions nobody catches
get_path_from_banner_uncaught(banner, index) ==
  IF find_all(index) = Raised THEN Raised ELSE Hint(BANNER_PARSE_FAIL)

\* lines 645-722
get_path_from_banner(banner, index) ==
  LET m == MatchBanner(banner)
  IN IF m = <<>> THEN Hint(BANNER_PARSE_FAIL)
     ELSE IF "ubuntu" \in Words(m[1].gcc) \cup Words(m[1].info) THEN
       IF Arch(banner) = <<>> THEN Hint(OS_WIP)
       ELSE LET found ==
                  Except(IF find_all(index) = Raised THEN Raised
                         ELSE ubuntu_links(find_all(index),
                                <<"linux-image", m[1].kernel>>,
                                <<"linux-image-unsigned", m[1].kernel>>,
                                Arch(banner)),
                         Hint(DOWNLOAD_FAIL))
            IN IF found # <<>> THEN found ELSE Hint(BANNER_PARSE_FAIL)
     ELSE IF "debian" \in Words(m[1].gcc) \cup Words(m[1].info) THEN
       IF Arch(banner) = <<>> THEN Hint(OS_WIP)
       ELSE LET found ==
                  Except(IF find_all(index) = Raised THEN Raised
                         ELSE debian_links(find_all(index),
                                <<"linux-image", m[1].kernel, "dbg">>,
                                m[1].info, Arch(banner)),
                         Hint(DOWNLOAD_FAIL))
            IN IF found # <<>> THEN found ELSE Hint(BANNER_PARSE_FAIL)
     ELSE Hint(OS_WIP)

\* the kernel a banner names, for the package index to hold its packages
KernelOf(banner) ==
  IF MatchBanner(banner) # <<>> THEN MatchBanner(banner)[1].kernel
  ELSE KERNEL_UNKNOWN

\* lines 899-905: the gate fails: the symbols' URL is looked up for a dump
\* that has a banner, then missing symbols, Completed, saved
unzip_then_run_missing(d) ==
  /\ orch[d].pc = "gate"
  /\ orch[d].restart = {}
  /\ ~check_runnable(automagic_available, dumps[d].operating_system,
                     dumps[d].banner)
  /\ \E index \in PackageIndex(KernelOf(dumps[d].banner)) :
       LET path == IF dumps[d].banner # <<>>
                     THEN get_path_from_banner(dumps[d].banner, index)
                     ELSE dumps[d].suggested_symbols_path
       IN IF path = Raised
            THEN /\ orch' = [orch EXCEPT ![d].pc = "raised",
                                         ![d].exc = "get_path_from_banner"]
                 /\ UNCHANGED dumps
            ELSE /\ dumps' = [dumps EXCEPT
                                ![d].suggested_symbols_path = path,
                                ![d].missing_symbols = TRUE,
                                ![d].status = DUMP_STATUS_COMPLETED]
                 /\ orch' = [orch EXCEPT ![d].pc = "disable",
                                         ![d].gate = "ineligible",
                                         ![d].completed = @ + 1]
  /\ UNCHANGED <<plugins, user_plugins, results, extracted, es, es_settings,
                 engine, task, sub, env>>

\* a loop over no Result
unzip_then_run_disable_none(d) ==
  /\ orch[d].pc = "disable"
  /\ orch' = [orch EXCEPT ![d].pc = "notify"]
  /\ UNCHANGED <<dumps, plugins, user_plugins, results, extracted, es,
                 es_settings, engine, task, sub, env>>

\* lines 909-916: every Result of tasks_list is saved Disabled
unzip_then_run_disable(d) ==
  /\ orch[d].pc = "disable"
  /\ LET ts == {r.plugin : r \in tasks_list(d, {})}
     IN results' = {IF r.dump = d /\ r.plugin \in ts
                      THEN [r EXCEPT !.result = RESULT_STATUS_DISABLED]
                      ELSE r : r \in results}
  /\ orch' = [orch EXCEPT ![d].pc = "notify"]
  /\ UNCHANGED <<dumps, plugins, user_plugins, extracted, es, es_settings,
                 engine, task, sub, env>>

\* line 917: send_to_ws(dump, message=..., color=4)
unzip_then_run_notify(d) ==
  /\ orch[d].pc = "notify"
  /\ \E sent \in send_to_ws :
       orch' = [orch EXCEPT ![d].pc = IF sent THEN "returned" ELSE "raised",
                            ![d].exc = IF sent THEN None ELSE "send_to_ws",
                            ![d].sent =
                              IF sent
                                THEN <<"Missing symbols all plugin are disabled">>
                                ELSE @]
  /\ UNCHANGED <<dumps, plugins, user_plugins, results, extracted, es,
                 es_settings, engine, task, sub, env>>

(***************************************************************************)
(* run_plugin(dump_obj, plugin_obj, params=None, user_pk)                  *)
(***************************************************************************)
\* a handler that only logs
Handler_log(d, name, excp) == results

\* lines 631-637: the outer handler saves the Result as Error, the trace of
\* the exception as its description
Handler(d, name, excp) ==
  SaveDescribed(results, d, name, RESULT_STATUS_ERROR, Join(fulltrace(excp)))

\* cd.multiscan_file(local_path): raises, or the infected files of the folder
multiscan_file(plugin_obj, files) ==
  IF plugin_obj.clamav_check
    THEN {[raised |-> TRUE, found |-> {}] : x \in {"clamd"} \cap env}
         \cup {[raised |-> FALSE, found |-> S] : S \in SUBSET files}
    ELSE {[raised |-> FALSE, found |-> {}]}

\* a row that drops the verdict of the scan
ExtractedDumpRow_clean(result_pk, path, match) ==
  [path |-> path, result |-> result_pk, sha256 |-> "sha256",
   clamav |-> None, vt_report |-> Null, reg_array |-> Null]

\* lines 527-549: the ExtractedDump row of one dumped file
ExtractedDumpRow(result_pk, path, match) ==
  [path |-> path, result |-> result_pk, sha256 |-> "sha256",
   clamav |-> IF path \in match THEN "FOUND" ELSE None,
   vt_report |-> Null, reg_array |-> Null]

\* ExtractedDump.objects.bulk_create(rows): path is unique
bulk_create_fails(rows) == \E e \in extracted, x \in rows : e.path = x.path

\* lines 559-573: the sub-tasks submitted for the dumped files
fanout(plugin_obj, name, files) ==
  {k \in SubKeys : /\ k[1] = name
                   /\ k[2] \in files
                   /\ \/ k[3] = "vt" /\ plugin_obj.vt_check
                      \/ k[3] = "regipy" /\ plugin_obj.regipy_check}

Pending == [pc |-> "pending", out |-> None, report |-> Null, row |-> Null]

\* the rows created before the folder is scanned
extraction_steps_unscanned(plugin_obj, scan_raised, failed, subtasks) ==
  <<"files", "bulk_create">>
  \o (IF plugin_obj.clamav_check THEN <<"scan">> ELSE <<>>)
  \o (IF failed \/ subtasks = {} THEN <<>> ELSE <<"submit">>)

\* lines 508-575 in the order of the statements: the files are written, the
\* folder is scanned (clamav_check), the rows are created, the fan-out is
\* submitted; an exception ends the sequence at the step that raised
extraction_steps(plugin_obj, scan_raised, failed, subtasks) ==
  <<"files">>
  \o (IF plugin_obj.clamav_check THEN <<"scan">> ELSE <<>>)
  \o (IF scan_raised THEN <<>> ELSE <<"bulk_create">>)
  \o (IF failed \/ subtasks = {} THEN <<>> ELSE <<"submit">>)

\* the values of params as Python writes them; bool(v)
Truthy(v) == v \notin {"", "False"}

\* lines 376-391: the flag of the plugin, or a true "dump" among the params
local_dump(plugin_obj, params) ==
  \/ plugin_obj.local_dump
  \/ \E item \in params : item[1] = "dump" /\ Truthy(item[2])

\* lines 382-399: every param that is not "" goes into ctx.config; without
\* params, dump is set True for a plugin that dumps locally
config(plugin_obj, params) ==
  IF params # {} THEN {item \in params : item[2] # ""}
  ELSE IF local_dump(plugin_obj, params) THEN {<<"dump", "True">>}
  ELSE {}

\* lines 354-575: configure, construct, run, render; rows: dump files, scan,
\* create rows, submit the fan-out
run_plugin_start(d, name) ==
  /\ task[d][name].pc = "start"
  /\ engine[d][name].kind # "hang"  \* constructed.run() never comes back
  /\ LET o == engine[d][name]
         plugin_obj == PluginByName(name)
         params == task[d][name].params
         configured == [task EXCEPT
                          ![d][name].local_dump = local_dump(plugin_obj, params),
                          ![d][name].config = config(plugin_obj, params)]
     IN IF o.kind = "unsatisfied" THEN
          /\ results' = SaveDescribed(
                           results, d, name, RESULT_STATUS_UNSATISFIED,
                           Join([i \in 1..Len(o.unsatisfied) |->
                                   o.unsatisfied[i].description]))
          /\ task' = [configured EXCEPT ![d][name].pc = "notify"]
          /\ UNCHANGED <<extracted, sub, env>>
        ELSE IF o.kind = "error" THEN
          /\ results' = SaveDescribed(results, d, name, RESULT_STATUS_ERROR,
                                       Join(fulltrace("VolatilityException")))
          /\ task' = [configured EXCEPT ![d][name].pc = "notify"]
          /\ UNCHANGED <<extracted, sub, env>>
        ELSE IF Len(o.rows) = 0 THEN
          /\ results' = SaveDescribed(results, d, name, RESULT_STATUS_EMPTY,
                                       o.error)
          /\ task' = [configured EXCEPT ![d][name].pc = "notify"]
          /\ UNCHANGED <<extracted, sub, env>>
        ELSE IF local_dump(plugin_obj, params) /\ o.files # {} THEN
          \E scan \in multiscan_file(plugin_obj, o.files) :
            LET match == {Path(d, name, f) : f \in scan.found}
                rows == {ExtractedDumpRow(ResultOf(d, name).pk,
                                          Path(d, name, f), match) :
                           f \in o.files}
                subtasks == fanout(plugin_obj, name, o.files)
                failed == scan.raised \/ bulk_create_fails(rows)
                steps == extraction_steps(plugin_obj, scan.raised, failed,
                                          subtasks)
                excp == IF scan.raised THEN "ConnectionError"
                        ELSE "IntegrityError"
            IN IF failed THEN
                 /\ results' = Handler(d, name, excp)
                 /\ task' = [configured EXCEPT
                               ![d][name].pc = "handler_notify",
                               ![d][name].steps = steps,
                               ![d][name].exc = excp]
                 /\ UNCHANGED <<extracted, sub, env>>
               ELSE
                 /\ extracted' = extracted \cup rows
                 /\ sub' = [sub EXCEPT ![d] =
                              [k \in SubKeys |->
                                 IF k \in subtasks THEN Pending ELSE sub[d][k]]]
                 /\ task' = [configured EXCEPT
                               ![d][name].pc =
                                 IF subtasks # {} THEN "gather" ELSE "sink",
                               ![d][name].tasks = subtasks,
                               ![d][name].steps = steps,
                               ![d][name].exc = None,
                               ![d][name].match = match]
                 /\ UNCHANGED results
        ELSE
          /\ task' = [configured EXCEPT ![d][name].pc = "sink"]
          /\ UNCHANGED <<results, extracted, sub, env>>
  /\ UNCHANGED <<dumps, plugins, user_plugins, es, es_settings, engine, orch,
                 env>>

\* a gather that comes back while sub-tasks are still running
fanout_nowait(d, ks) == TRUE

\* line 574: dask_client.gather(tasks) has every sub-task's return value
fanout_gather(d, ks) == \A k \in ks : sub[d][k].pc = "done"

\* lines 574-575: dask_client.gather(tasks) of the fan-out
run_plugin_gather(d, name) ==
  /\ task[d][name].pc = "gather"
  /\ \/ /\ fanout_gather(d, task[d][name].tasks)
        /\ task' = [task EXCEPT ![d][name].pc = "sink",
                                ![d][name].steps = Append(@, "gather")]
        /\ UNCHANGED results
     \/ /\ \E k \in task[d][name].tasks : sub[d][k].pc = "failed"
        /\ results' = Handler(d, name, "gather")
        /\ task' = [task EXCEPT ![d][name].pc = "handler_notify",
                                ![d][name].exc = "gather"]
  /\ UNCHANGED <<dumps, plugins, user_plugins, extracted, es, es_settings,
                 engine, orch, sub, env>>

\* uuid.uuid4(): the i-th value drawn for a partition that holds n documents;
\* a value is never drawn twice
uuid4(index, n, i) == <<index, n + i>>

\* gendata(index, result, other_info): the first k documents of the batch
gendata(index, rows, other_info, k) ==
  LET n == Cardinality({doc \in es : doc.index = index})
  IN {[index |-> index, id |-> uuid4(index, n, i),
       source |-> [row |-> rows[i].row, Banner |-> rows[i].Banner,
                   dump_name |-> other_info.dump_name,
                   orochi_plugin |-> other_info.orochi_plugin]] : i \in 1..k}

\* helpers.bulk(es, actions): how many documents of the batch got indexed; it
\* raises unless that is all of them
bulk(n) == IF "es" \in env THEN 0..n ELSE {n}

\* a bulk helper that reports nothing
indexed_any(k, rows) == TRUE

\* helpers.bulk returns only when every action of the batch was indexed
indexed(k, rows) == k = Len(rows)

\* es.indices.put_settings(...): done, or raises
es_put == IF "es" \in env THEN {TRUE, FALSE} ELSE {TRUE}

\* lines 577-611: helpers.bulk indexes k of the rows and raises unless it
\* indexed them all; put_settings; the Result is saved Success
run_plugin_sink(d, name) ==
  /\ task[d][name].pc = "sink"
  /\ LET rows == engine[d][name].rows
         index == IndexName(d, name)
         other_info == [dump_name |-> dumps[d].name,
                        orochi_plugin |-> Lower(name)]
     IN \E k \in bulk(Len(rows)), put_settings \in es_put :
          LET excp == IF indexed(k, rows) THEN "TransportError"
                      ELSE "BulkIndexError"
          IN
          /\ es' = es \cup gendata(index, rows, other_info, k)
          /\ IF indexed(k, rows) /\ put_settings THEN
               /\ es_settings' = es_settings \cup {index}
               /\ results' = SaveDescribed(results, d, name,
                                            RESULT_STATUS_SUCCESS,
                                            engine[d][name].error)
               /\ task' = [task EXCEPT ![d][name].pc = "notify",
                                       ![d][name].steps =
                                         @ \o <<"bulk", "success">>]
             ELSE
               /\ results' = Handler(d, name, excp)
               /\ task' = [task EXCEPT ![d][name].pc = "handler_notify",
                                       ![d][name].steps = Append(@, "bulk"),
                                       ![d][name].exc = excp]
               /\ UNCHANGED es_settings
  /\ UNCHANGED <<dumps, plugins, user_plugins, extracted, engine, orch, sub,
                 env>>

\* lines 475, 493, 628: send_to_ws inside the try; an exception of it is
\* caught by the outer handler, which saves Error
run_plugin_notify(d, name) ==
  /\ task[d][name].pc = "notify"
  /\ \E sent \in send_to_ws :
       IF sent THEN /\ task' = [task EXCEPT ![d][name].pc = "done",
                                            ![d][name].sent =
                                              Notify(@, d, name)]
                    /\ UNCHANGED results
       ELSE /\ results' = Handler(d, name, "send_to_ws")
            /\ task' = [task EXCEPT ![d][name].pc = "handler_notify",
                                    ![d][name].exc = "send_to_ws"]
  /\ UNCHANGED <<dumps, plugins, user_plugins, extracted, es, es_settings,
                 engine, orch, sub, env>>

\* lines 638-642: send_to_ws of the handler; its exception leaves run_plugin
run_plugin_handler_notify(d, name) ==
  /\ task[d][name].pc = "handler_notify"
  /\ \E sent \in send_to_ws :
       task' = [task EXCEPT ![d][name].pc = IF sent THEN "done" ELSE "failed",
                            ![d][name].sent =
                              IF sent THEN Notify(@, d, name) ELSE @]
  /\ UNCHANGED <<dumps, plugins, user_plugins, results, extracted, es,
                 es_settings, engine, orch, sub, env>>

(***************************************************************************)
(* run_vt(result_pk, filepath) and run_regipy(result_pk, filepath)         *)
(***************************************************************************)
\* what the reputation lookup does: a report, one of the two caught errors,
\* or any other exception
vt_lookup ==
  IF "vt" \in env THEN {"report", "not_configured", "api_error", "raise"}
  ELSE {"report"}

vt_report(out) ==
  CASE out = "report" -> [json |-> "report"]
    [] out = "not_configured" -> [json |-> "error", error |-> "Service not configured"]
    [] out = "api_error" -> [json |-> "error", error |-> "APIError"]

\* lines 297-303: root is {"values": [...]} of the entries of the hive, a
\* hive without entries giving {"values": []}, or {} on any exception
regipy_parse ==
  IF "regipy" \in env
    THEN {[json |-> "hive", values |-> <<"entry">>],
          [json |-> "hive", values |-> <<>>], [json |-> "empty"]}
  ELSE {[json |-> "hive", values |-> <<"entry">>]}

\* ExtractedDump.objects.get(result__pk=result_pk, path=filepath)
ExtractedGet(result_pk, path) ==
  {e \in extracted : e.result = result_pk /\ e.path = path}

\* ed.save(): the row of that path is written from the object in memory
ExtractedSave(row) == {e \in extracted : e.path # row.path} \cup {row}

\* lines 263-288: the lookup and the read of the row
run_vt_lookup(d, k) ==
  /\ k[3] = "vt"
  /\ sub[d][k].pc = "pending"
  /\ \E out \in vt_lookup :
       LET rows == ExtractedGet(ResultOf(d, k[1]).pk, Path(d, k[1], k[2]))
       IN IF out = "raise" \/ rows = {}
            THEN sub' = [sub EXCEPT ![d][k] =
                           [pc |-> "failed", out |-> out, report |-> Null,
                            row |-> Null]]
            ELSE \E ed \in rows :
                   sub' = [sub EXCEPT ![d][k] =
                             [pc |-> "loaded", out |-> out,
                              report |-> vt_report(out), row |-> ed]]
  /\ UNCHANGED <<dumps, plugins, user_plugins, results, extracted, es,
                 es_settings, engine, orch, task, env>>

\* lines 289-290: ed.vt_report = vt_report; ed.save()
run_vt_save(d, k) ==
  /\ k[3] = "vt"
  /\ sub[d][k].pc = "loaded"
  /\ extracted' = ExtractedSave([sub[d][k].row EXCEPT
                                   !.vt_report = sub[d][k].report])
  /\ sub' = [sub EXCEPT ![d][k].pc = "done", ![d][k].row = Null]
  /\ UNCHANGED <<dumps, plugins, user_plugins, results, es, es_settings,
                 engine, orch, task, env>>

\* lines 297-306: the parse and the read of the row
run_regipy_parse(d, k) ==
  /\ k[3] = "regipy"
  /\ sub[d][k].pc = "pending"
  /\ \E root \in regipy_parse :
       LET rows == ExtractedGet(ResultOf(d, k[1]).pk, Path(d, k[1], k[2]))
       IN IF rows = {}
            THEN sub' = [sub EXCEPT ![d][k] =
                           [pc |-> "failed", out |-> root.json, report |-> Null,
                            row |-> Null]]
            ELSE \E ed \in rows :
                   sub' = [sub EXCEPT ![d][k] =
                             [pc |-> "loaded", out |-> root.json,
                              report |-> root, row |-> ed]]
  /\ UNCHANGED <<dumps, plugins, user_plugins, results, extracted, es,
                 es_settings, engine, orch, task, env>>

\* lines 307-308: ed.reg_array = root; ed.save()
run_regipy_save(d, k) ==
  /\ k[3] = "regipy"
  /\ sub[d][k].pc = "loaded"
  /\ extracted' = ExtractedSave([sub[d][k].row EXCEPT
                                   !.reg_array = sub[d][k].report])
  /\ sub' = [sub EXCEPT ![d][k].pc = "done", ![d][k].row = Null]
  /\ UNCHANGED <<dumps, plugins, user_plugins, results, es, es_settings,
                 engine, orch, task, env>>

(***************************************************************************)
(* plugins_sync (Command.handle) and the new_plugin signal                 *)
(***************************************************************************)
\* Result.objects.create(dump=dump, plugin=plugin)
create(rs, d, name) ==
  rs \cup {[pk |-> MaxPk(rs) + 1, dump |-> d, plugin |-> name,
            result |-> RESULT_STATUS_RUNNING, description |-> None]}

\* Result.objects.get_or_create(dump=dump, plugin=plugin)
get_or_create(rs, d, name) ==
  IF \E r \in rs : r.dump = d /\ r.plugin = name THEN rs
  ELSE rs \cup {[pk |-> MaxPk(rs) + 1, dump |-> d, plugin |-> name,
                 result |-> RESULT_STATUS_RUNNING, description |-> None]}

\* a signal that gives every dump a Disabled Result of the plugin
new_plugin_everywhere(rs, plugin, ds) ==
  rs \cup {[pk |-> MaxPk(rs) + (IF d = "d1" THEN 1 ELSE 2), dump |-> d,
            plugin |-> plugin.name, result |-> RESULT_STATUS_DISABLED,
            description |-> None] : d \in ds}

\* models.py new_plugin: a Disabled Result in every dump of the plugin's
\* operating system, and in every dump for a plugin of "Other"
RECURSIVE new_plugin(_, _, _)
new_plugin(rs, plugin, ds) ==
  IF ds = {} THEN rs
  ELSE LET d == CHOOSE x \in ds : TRUE
           hit == plugin.operating_system \in {dumps[d].operating_system, "Other"}
           next == IF hit
                     THEN SaveResult(get_or_create(rs, d, plugin.name), d,
                                     plugin.name, RESULT_STATUS_DISABLED)
                     ELSE rs
       IN new_plugin(next, plugin, ds \ {d})

\* Command.handle lines 63-71: "Add new plugin in old dump"
RECURSIVE add_to_old_dumps(_, _, _)
add_to_old_dumps(rs, plugin, ds) ==
  IF ds = {} THEN rs
  ELSE LET d == CHOOSE x \in ds : TRUE
           hit == plugin.operating_system \in {dumps[d].operating_system, "Other"}
           got == get_or_create(rs, d, plugin.name)
           next == IF hit /\ got # rs
                     THEN SaveResult(got, d, plugin.name, RESULT_STATUS_DISABLED)
                     ELSE IF hit THEN got ELSE rs
       IN add_to_old_dumps(next, plugin, ds \ {d})

\* a UserPlugin for every user, whether or not the user has one
add_to_user_create(ups, name) == ups (+) UserPlugins({name}, {name})

\* "Add new plugin to user": UserPlugin.objects.get_or_create(user=user,
\* plugin=plugin) for every user; automatic is False in a row it creates
add_to_user(ups, name) ==
  ups (+) SetToBag({up \in BagToSet(UserPlugins({name}, {name})) :
                      \A x \in BagToSet(ups) :
                        x.user # up.user \/ x.plugin # name})

\* Command.handle lines 36-47: a stored plugin that the engine does not list
\* any more is saved disabled
not_available(ps) ==
  {IF p.name \in available_plugins THEN p ELSE [p EXCEPT !.disabled = TRUE] :
     p \in ps}

\* plugin.save() of a new Plugin row: the row is stored and the post_save
\* signal new_plugin adds its Results and its UserPlugins
Plugin_save(ps, rs, ups, plugin) ==
  <<ps \cup {plugin}, new_plugin(rs, plugin, Dumps),
    add_to_user(ups, plugin.name)>>

\* Command.handle lines 49-87: every available plugin that is not installed
\* is saved (the signal runs) and added to the old dumps; every available
\* plugin is added to the users
RECURSIVE handle(_, _, _, _)
handle(ps, rs, ups, names) ==
  IF names = {} THEN <<ps, rs, ups>>
  ELSE LET name == CHOOSE x \in names : TRUE
           plugin == PluginRow(name)
           saved == Plugin_save(ps, rs, ups, plugin)
       IN IF \E p \in ps : p.name = name
            THEN handle(ps, rs, add_to_user(ups, name), names \ {name})
            ELSE handle(saved[1],
                        add_to_old_dumps(saved[2], plugin, Dumps),
                        add_to_user(saved[3], name),
                        names \ {name})

\* python manage.py plugins_sync
plugins_sync ==
  /\ "sync" \in env
  /\ LET out == handle(not_available(plugins), results, user_plugins,
                       available_plugins)
     IN /\ plugins' = out[1]
        /\ results' = out[2]
        /\ user_plugins' = out[3]
  /\ UNCHANGED <<dumps, extracted, es, es_settings, engine, orch, task,
                 sub, env>>

\* a Plugin row created outside plugins_sync (the administration site), with
\* the name of a plugin of the catalog and any operating system
plugin_add(name, operating_system) ==
  /\ "sync" \in env
  /\ \A p \in plugins : p.name # name
  /\ LET out == Plugin_save(plugins, results, user_plugins,
                            [PluginRow(name) EXCEPT
                               !.operating_system = operating_system])
     IN /\ plugins' = out[1]
        /\ results' = out[2]
        /\ user_plugins' = out[3]
  /\ UNCHANGED <<dumps, extracted, es, es_settings, engine, orch, task,
                 sub, env>>

(***************************************************************************)
(* The collaborators that failed are repaired while no run is in progress. *)
(***************************************************************************)
services_recover ==
  /\ env \cap Faults # {}
  /\ "restart" \in env
  /\ \A d \in Dumps : orch[d].pc \in {"returned", "raised"} /\ Quiescent(d)
  /\ env' = env \ Faults
  /\ UNCHANGED <<dumps, plugins, user_plugins, results, extracted, es,
                 es_settings, engine, orch, task, sub>>

(***************************************************************************)
(* Specification.                                                          *)
(***************************************************************************)
Next ==
  \/ \E d \in Dumps : unzip_then_run_prepare(d)
  \/ \E d \in Dumps : unzip_then_run_restart(d)
  \/ \E d \in Dumps : unzip_then_run_banner(d)
  \/ \E d \in Dumps : unzip_then_run_dispatch(d)
  \/ \E d \in Dumps : unzip_then_run_gather(d)
  \/ \E d \in Dumps : unzip_then_run_missing(d)
  \/ \E d \in Dumps : unzip_then_run_disable(d)
  \/ \E d \in Dumps : unzip_then_run_notify(d)
  \/ \E d \in Dumps, name \in available_plugins : run_plugin_start(d, name)
  \/ \E d \in Dumps, name \in available_plugins : run_plugin_gather(d, name)
  \/ \E d \in Dumps, name \in available_plugins : run_plugin_sink(d, name)
  \/ \E d \in Dumps, name \in available_plugins : run_plugin_notify(d, name)
  \/ \E d \in Dumps, name \in available_plugins :
       run_plugin_handler_notify(d, name)
  \/ \E d \in Dumps, k \in SubKeys : run_vt_lookup(d, k)
  \/ \E d \in Dumps, k \in SubKeys : run_vt_save(d, k)
  \/ \E d \in Dumps, k \in SubKeys : run_regipy_parse(d, k)
  \/ \E d \in Dumps, k \in SubKeys : run_regipy_save(d, k)
  \/ plugins_sync
  \/ services_recover

Spec == Init /\ [][Next]_vars

\* the steps of the program: the worker pool runs every task it was given and
\* an orchestrator that can go on does; the caller, the administrator and
\* the collaborators' repair are not obliged to act
Run ==
  \/ \E d \in Dumps : unzip_then_run_prepare(d)
  \/ \E d \in Dumps : unzip_then_run_banner(d)
  \/ \E d \in Dumps : unzip_then_run_dispatch(d)
  \/ \E d \in Dumps : unzip_then_run_gather(d)
  \/ \E d \in Dumps : unzip_then_run_missing(d)
  \/ \E d \in Dumps : unzip_then_run_disable(d)
  \/ \E d \in Dumps : unzip_then_run_notify(d)
  \/ \E d \in Dumps, name \in available_plugins : run_plugin_start(d, name)
  \/ \E d \in Dumps, name \in available_plugins : run_plugin_gather(d, name)
  \/ \E d \in Dumps, name \in available_plugins : run_plugin_sink(d, name)
  \/ \E d \in Dumps, name \in available_plugins : run_plugin_notify(d, name)
  \/ \E d \in Dumps, name \in available_plugins :
       run_plugin_handler_notify(d, name)
  \/ \E d \in Dumps, k \in SubKeys : run_vt_lookup(d, k)
  \/ \E d \in Dumps, k \in SubKeys : run_vt_save(d, k)
  \/ \E d \in Dumps, k \in SubKeys : run_regipy_parse(d, k)
  \/ \E d \in Dumps, k \in SubKeys : run_regipy_save(d, k)

FairSpec == Spec /\ WF_vars(Run)

(***************************************************************************)
(* The plugin view: a user runs one plugin on a dump with the parameters   *)
(* of the form.                                                            *)
(***************************************************************************)
\* the mappings of the form, as items: dump asked for, dump declined, another
\* option only, an option left empty
Params ==
  {{<<"dump", "True">>},
   {<<"dump", "False">>},
   {<<"pid", "4">>},
   {<<"dump", "True">>, <<"pid", "">>}}

\* run_plugin(dump, plugin, params, user_pk) submitted by the view
views_plugin(d, name) ==
  /\ "params" \in env
  /\ task[d][name].pc = "none"
  /\ HasResult(d, name)
  /\ \E params \in Params \cup {NoParams} :
       task' = [task EXCEPT ![d][name] = Submit(params)]
  /\ UNCHANGED <<dumps, plugins, user_plugins, results, extracted, es,
                 es_settings, engine, orch, sub, env>>

\* the store when the view is used: every outcome of the file-dumping
\* plugin, the antivirus failing or not
InitParams ==
  /\ InitStore({"Windows"},
               {e \in Engines : e[BANNERS].rows = BannerRows(KERNEL_KNOWN)},
               TRUE)
  /\ env = {"params", "clamd"}

ParamNext ==
  \/ \E d \in Dumps, name \in available_plugins : views_plugin(d, name)
  \/ \E d \in Dumps, name \in available_plugins : run_plugin_start(d, name)
  \/ \E d \in Dumps, name \in available_plugins : run_plugin_gather(d, name)
  \/ \E d \in Dumps, name \in available_plugins : run_plugin_sink(d, name)
  \/ \E d \in Dumps, name \in available_plugins : run_plugin_notify(d, name)
  \/ \E d \in Dumps, name \in available_plugins :
       run_plugin_handler_notify(d, name)
  \/ \E d \in Dumps, k \in SubKeys : run_vt_lookup(d, k)
  \/ \E d \in Dumps, k \in SubKeys : run_vt_save(d, k)
  \/ \E d \in Dumps, k \in SubKeys : run_regipy_parse(d, k)
  \/ \E d \in Dumps, k \in SubKeys : run_regipy_save(d, k)

ParamSpec == InitParams /\ [][ParamNext]_vars

(***************************************************************************)
(* The worker pool.  unzip_then_run, run_plugin, run_vt and run_regipy are *)
(* tasks of one Dask worker with a bounded number of threads: a submitted  *)
(* task starts when a thread is free and keeps it until it ends, secede()  *)
(* gives the thread's place back to the pool, rejoin() waits for a free    *)
(* place and takes it.  The banner plugin's run_plugin is a plain call in  *)
(* the thread of unzip_then_run.                                           *)
(***************************************************************************)
\* the threads of the worker
Workers == IF "workers2" \in env THEN 2 ELSE 1

\* a thread that keeps its place while it waits
secede_never(pc) == FALSE

\* lines 557 and 878: secede() before the gather; the thread that waits in
\* gather has no place in the pool
secede(pc) == pc = "gather"

\* line 866: run_plugin(dump, banner.plugin) called by unzip_then_run
Inline(d, name) == name = BANNERS /\ orch[d].pc = "banner"

\* unzip_then_run has a place in the pool
OrchHolds(d) ==
  /\ orch[d].pc \in {"banner", "gate", "gather", "disable", "notify"}
  /\ ~secede(orch[d].pc)

\* run_plugin has a place in the pool; the handler of a gather that raised
\* runs in the thread that seceded and did not rejoin
TaskHolds(d, name) ==
  /\ ~Inline(d, name)
  /\ task[d][name].pc \in {"gather", "sink", "notify", "handler_notify"}
  /\ ~secede(task[d][name].pc)
  /\ ~(/\ task[d][name].pc = "handler_notify"
       /\ task[d][name].exc = "gather"
       /\ secede("gather"))

Busy ==
  Cardinality({d \in Dumps : OrchHolds(d)})
  + Cardinality({x \in Dumps \X available_plugins : TaskHolds(x[1], x[2])})
  + Cardinality({x \in Dumps \X SubKeys : sub[x[1]][x[2]].pc = "loaded"})

\* a thread of the worker is free
Free == Busy < Workers

\* lines 575 and 895: rejoin() of a thread that seceded
rejoin == secede("gather") => Free

\* pools of one thread and of two; one dump on every operating system and
\* terminating engine outcome, the antivirus failing or not; the fan-out with
\* both analyzers; the reputation service failing or not; two dumps together
\* whose file-dumping plugin renders no row
InitPool ==
  \/ /\ InitStore(OPERATING_SYSTEM,
                  {e \in Engines : e[BANNERS].kind # "hang"}, FALSE)
     /\ env \in {{"clamd"}, {"clamd", "workers2"}}
  \/ /\ InitStore({"Windows"}, EngineRows, TRUE)
     /\ env \in {{}, {"workers2"}}
  \/ /\ InitStore({"Windows"}, EngineRows, FALSE)
     /\ env \in {{"vt"}, {"vt", "workers2"}}
  \/ /\ InitStoreOf(DumpIds, {"Windows"},
                    {e \in Engines : /\ e[BANNERS].rows = BannerRows(KERNEL_KNOWN)
                                     /\ e[LAYERWRITER].rows = <<>>},
                    FALSE)
     /\ env \in {{}, {"workers2"}}

PoolNext ==
  \/ \E d \in Dumps : Free /\ unzip_then_run_prepare(d)
  \/ \E d \in Dumps : unzip_then_run_banner(d)
  \/ \E d \in Dumps : unzip_then_run_dispatch(d)
  \/ \E d \in Dumps :
       /\ unzip_then_run_gather(d)
       /\ orch[d]'.pc = "returned" => rejoin
  \/ \E d \in Dumps : unzip_then_run_missing(d)
  \/ \E d \in Dumps : unzip_then_run_disable(d)
  \/ \E d \in Dumps : unzip_then_run_notify(d)
  \/ \E d \in Dumps, name \in available_plugins :
       /\ Inline(d, name) \/ Free
       /\ run_plugin_start(d, name)
  \/ \E d \in Dumps, name \in available_plugins :
       /\ run_plugin_gather(d, name)
       /\ task[d][name]'.pc = "sink" => rejoin
  \/ \E d \in Dumps, name \in available_plugins : run_plugin_sink(d, name)
  \/ \E d \in Dumps, name \in available_plugins : run_plugin_notify(d, name)
  \/ \E d \in Dumps, name \in available_plugins :
       run_plugin_handler_notify(d, name)
  \/ \E d \in Dumps, k \in SubKeys : Free /\ run_vt_lookup(d, k)
  \/ \E d \in Dumps, k \in SubKeys : run_vt_save(d, k)
  \/ \E d \in Dumps, k \in SubKeys : Free /\ run_regipy_parse(d, k)
  \/ \E d \in Dumps, k \in SubKeys : run_regipy_save(d, k)

\* the worker runs a task that can run
PoolSpec == InitPool /\ [][PoolNext]_vars /\ WF_vars(PoolNext)

(***************************************************************************)
(* Properties.                                                             *)
(***************************************************************************)
Terminal(r) == r.result \in TerminalStates

\* the documents of the partition of (dump, plugin)
Partition(d, name) == {doc \in es : doc.index = IndexName(d, name)}

\* C1: when unzip_then_run has returned, initial call or restart, the dump is
\* Completed or Error, never still Created, and if it is Completed every
\* Result the run was about (tasks_list: restart scoping and the Linux banner
\* exclusion applied) is in a terminal state, not Running.
C1_ReturnedCompletedOrError ==
  \A d \in Dumps :
    orch[d].pc = "returned" =>
      /\ dumps[d].status \in {DUMP_STATUS_COMPLETED, DUMP_STATUS_ERROR}
      /\ dumps[d].status = DUMP_STATUS_COMPLETED =>
           \A r \in tasks_list(d, orch[d].restart) : Terminal(r)

\* a run that dispatched tasks returned Completed and one of them ended Error
C1_Witness ==
  \E d \in Dumps :
    /\ orch[d].pc = "returned"
    /\ orch[d].gate = "eligible"
    /\ dumps[d].status = DUMP_STATUS_COMPLETED
    /\ \E n \in orch[d].tasks : ResultOf(d, n).result = RESULT_STATUS_ERROR

\* C2: in every state, a dump stored as Completed has every non-excluded
\* Result in a terminal state (none still Running and not yet Disabled).
C2_CompletedOnlyIfTerminal ==
  \A d \in Dumps :
    dumps[d].status = DUMP_STATUS_COMPLETED =>
      \A r \in tasks_list(d, {}) : Terminal(r)

\* C3: failure isolation: no dispatched run_plugin lets an exception out to
\* the orchestrator's gather, and a run that dispatched tasks and returned
\* has the dump Completed and every dispatched plugin's Result terminal.
C3_FailureIsolation ==
  \A d \in Dumps :
    /\ \A n \in orch[d].tasks : task[d][n].pc # "failed"
    /\ orch[d].exc # "gather"
    /\ orch[d].pc = "returned" /\ orch[d].gate = "eligible" =>
         /\ dumps[d].status = DUMP_STATUS_COMPLETED
         /\ \A n \in orch[d].tasks : Terminal(ResultOf(d, n))

\* C4: within one attempt of run_plugin, once the Result was saved Success,
\* Empty or Unsatisfied no later step of the attempt writes another state.
C4_WrittenOnce ==
  [][\A d \in Dumps, n \in installed_plugins :
       (/\ task[d][n].pc \in {"notify", "handler_notify"}
        /\ ResultOf(d, n).result \in {RESULT_STATUS_SUCCESS,
                                      RESULT_STATUS_EMPTY,
                                      RESULT_STATUS_UNSATISFIED})
       => ResultOf(d, n)'.result = ResultOf(d, n).result]_vars

\* C5: in every state there is at most one Result row per (dump, plugin).
C5_OneResultPerPair ==
  \A r1, r2 \in results :
    r1.dump = r2.dump /\ r1.plugin = r2.plugin => r1 = r2

\* plugins_sync has added a plugin to a dump whose plugin was restarted
C5_Witness ==
  \E d \in Dumps :
    /\ HasResult(d, PSLIST)
    /\ orch[d].pc = "returned"
    /\ orch[d].restart # {}
    /\ orch[d].tasks # {}

\* C6: restart idempotence: two restarts in sequence of the same plugins on a
\* prepared dump, no collaborator failing in either, leave every restarted
\* plugin's Result in the same state after the second as after the first.
C6_RestartIdempotent ==
  \A d \in Dumps :
    (/\ orch[d].pc = "returned"
     /\ orch[d].restart # {}
     /\ orch[d].prev.restart = orch[d].restart
     /\ orch[d].prev.faults = {}
     /\ env \cap Faults = {}
     /\ dumps[d].sha256 # None)
    => \A n \in orch[d].restart :
         ResultOf(d, n).result = orch[d].prev.states[n]

\* C7: a first run of a Linux dump that the gate found ineligible has, when
\* unzip_then_run returns, missing_symbols set, the dump Completed and every
\* Result other than the banner plugin's Disabled.
C7_IneligibleLinux ==
  \A d \in Dumps :
    (/\ orch[d].pc = "returned"
     /\ orch[d].restart = {}
     /\ orch[d].gate = "ineligible"
     /\ dumps[d].operating_system = "Linux")
    => /\ dumps[d].missing_symbols
       /\ dumps[d].status = DUMP_STATUS_COMPLETED
       /\ \A r \in result_set(d) :
            r.plugin # BANNERS => r.result = RESULT_STATUS_DISABLED

\* an ineligible Linux dump whose banner was found, for an unknown kernel
C7_Witness ==
  \E d \in Dumps :
    /\ orch[d].pc = "returned"
    /\ orch[d].restart = {}
    /\ orch[d].gate = "ineligible"
    /\ dumps[d].operating_system = "Linux"
    /\ dumps[d].banner # <<>>

\* C8: every step of a run_plugin execution whose engine output renders to
\* zero rows leaves the index, the index settings, the ExtractedDump rows and
\* the fan-out alone, and the execution ends with the Result Empty.
C8_ZeroRowsEmpty ==
  [][\A d \in Dumps, n \in installed_plugins :
       (/\ engine[d][n].kind = "rows"
        /\ engine[d][n].rows = <<>>
        /\ ~Finished(task[d][n])
        /\ task[d][n]' # task[d][n])
       => /\ UNCHANGED <<es, es_settings, extracted, sub>>
          /\ Finished(task[d][n]') =>
               ResultOf(d, n)'.result = RESULT_STATUS_EMPTY]_vars

\* C9: in the first unzip_then_run of a dump, no collaborator failing, a
\* run_plugin execution of N>0 rows that saved Success leaves exactly N
\* documents in the partition of (dump, plugin), with distinct ids, each
\* carrying the dump name and the lower-cased plugin name.
C9_ExactlyNDocuments ==
  \A d \in Dumps, n \in installed_plugins :
    (/\ task[d][n].pc = "notify"
     /\ ResultOf(d, n).result = RESULT_STATUS_SUCCESS
     /\ orch[d].restarts = 0
     /\ env \cap Faults = {})
    => /\ Cardinality(Partition(d, n)) = Len(engine[d][n].rows)
       /\ \A x, y \in Partition(d, n) : x.id = y.id => x = y
       /\ \A x \in Partition(d, n) :
            /\ x.source.dump_name = dumps[d].name
            /\ x.source.orochi_plugin = Lower(n)

\* C10: when the reputation lookup of one extracted file failed (not
\* configured, API error, any other exception) and nothing else can fail, the
\* finished run_plugin has its Result Success and the file has exactly one
\* ExtractedDump row, whose vt_report is an error document.
C10_VtFailureDegrades ==
  \A d \in Dumps, k \in SubKeys :
    (/\ k[3] = "vt"
     /\ env \cap {"ws", "clamd", "es"} = {}
     /\ sub[d][k].out \in {"not_configured", "api_error", "raise"}
     /\ Finished(sub[d][k])
     /\ task[d][k[1]].pc \in {"done", "failed"})
    => /\ ResultOf(d, k[1]).result = RESULT_STATUS_SUCCESS
       /\ \E e \in extracted :
            /\ e.path = Path(d, k[1], k[2])
            /\ e.vt_report.json = "error"
            /\ \A x \in extracted : x.path = e.path => x = e

\* whether a run_plugin call has taken a step
InSteps(t, x) == \E i \in 1..Len(t.steps) : t.steps[i] = x

\* the ExtractedDump rows owned by the Result of (dump, plugin)
OwnedBy(d, name) ==
  {e \in extracted :
     \E r \in results : r.dump = d /\ r.plugin = name /\ e.result = r.pk}

\* C11: the notification sink is best-effort: a step of run_plugin that calls
\* send_to_ws leaves the Result in the state it had and run_plugin returns,
\* and the send_to_ws of unzip_then_run lets unzip_then_run return.
C11_NotificationBestEffort ==
  [][/\ \A d \in Dumps, n \in installed_plugins :
          (/\ task[d][n].pc \in {"notify", "handler_notify"}
           /\ task[d][n]' # task[d][n])
          => /\ ResultOf(d, n)'.result = ResultOf(d, n).result
             /\ task[d][n]'.pc = "done"
     /\ \A d \in Dumps :
          orch[d].pc = "notify" /\ orch[d]' # orch[d] =>
            orch[d]'.pc = "returned"]_vars

\* C12: a step of a restart run unzip_then_run(D, restart=S) leaves the
\* Result rows, the ExtractedDump rows and the index partition of every
\* plugin of D outside S as they were, and D's hash and banner too.
C12_RestartFrame ==
  [][\A d \in Dumps :
       (/\ orch[d].restart # {}
        /\ orch[d]'.restarts = orch[d].restarts
        /\ plugins' = plugins)
       => /\ \A n \in available_plugins \ orch[d].restart :
               /\ {r \in results : r.dump = d /\ r.plugin = n}'
                    = {r \in results : r.dump = d /\ r.plugin = n}
               /\ OwnedBy(d, n)' = OwnedBy(d, n)
               /\ Partition(d, n)' = Partition(d, n)
          /\ dumps[d]'.sha256 = dumps[d].sha256
          /\ dumps[d]'.banner = dumps[d].banner]_vars

\* a restart of the file-dumping plugin returned; the banner plugin, which
\* was not restarted, has documents in its partition
C12_Witness ==
  \E d \in Dumps :
    /\ orch[d].pc = "returned"
    /\ orch[d].restart = {LAYERWRITER}
    /\ orch[d].tasks = {LAYERWRITER}
    /\ Partition(d, BANNERS) # {}

\* C13: a run of unzip_then_run that is over and did not leave the dump in
\* Error wrote Completed to the dump exactly once.
C13_CompletedOnce ==
  \A d \in Dumps :
    (/\ orch[d].pc \in {"returned", "raised"}
     /\ dumps[d].status # DUMP_STATUS_ERROR)
    => orch[d].completed = 1

\* C14: a run_plugin call that submitted fan-out sub-tasks has passed its
\* gather, and saved Success, only with every sub-task of its own call done;
\* the sub-tasks it waits on are those of its own plugin and dump.
C14_SuccessAfterOwnFanout ==
  \A d \in Dumps, n \in installed_plugins :
    /\ \A k \in task[d][n].tasks : k[1] = n
    /\ (InSteps(task[d][n], "gather") \/ InSteps(task[d][n], "success")) =>
         \A k \in task[d][n].tasks : sub[d][k].pc = "done"

\* one dump's call saved Success while a sub-task of the other dump's call
\* is still running
C14_Witness ==
  \E a, b \in Dumps :
    /\ a # b
    /\ task[a][LAYERWRITER].tasks # {}
    /\ InSteps(task[a][LAYERWRITER], "success")
    /\ \E k \in task[b][LAYERWRITER].tasks : sub[b][k].pc = "pending"

\* the order of the steps of an extracting run_plugin call
StepOrder(plugin_obj) ==
  <<"files">>
  \o (IF plugin_obj.clamav_check THEN <<"scan">> ELSE <<>>)
  \o <<"bulk_create">>
  \o (IF plugin_obj.vt_check \/ plugin_obj.regipy_check
        THEN <<"submit", "gather">> ELSE <<>>)
  \o <<"bulk", "success">>

\* C15: the steps of one run_plugin call with extraction enabled and files
\* produced are taken in the order: files written, antivirus scan, bulk
\* ExtractedDump creation, fan-out submission, fan-out completion, bulk index
\* submission, Success; the fan-out is submitted with the rows created and
\* the index is written with every sub-task done.
C15_StepOrder ==
  \A d \in Dumps, n \in installed_plugins :
    LET t == task[d][n]
    IN PluginByName(n).local_dump /\ engine[d][n].files # {} =>
         /\ IsPrefix(t.steps, StepOrder(PluginByName(n)))
         /\ InSteps(t, "submit") =>
              \A k \in t.tasks :
                \E e \in extracted : e.path = Path(d, k[1], k[2])
         /\ InSteps(t, "bulk") =>
              \A k \in t.tasks : sub[d][k].pc = "done"

\* a call with both analyzers went through every step
C15_Witness ==
  \E d \in Dumps :
    /\ PluginByName(LAYERWRITER).regipy_check
    /\ task[d][LAYERWRITER].steps = StepOrder(PluginByName(LAYERWRITER))

\* C16: when run_vt and run_regipy of one extracted file are both done, the
\* file's ExtractedDump row holds the vt_report that run_vt wrote and the
\* reg_array that run_regipy wrote.
C16_NoLostUpdate ==
  \A d \in Dumps, f \in Files(MaxFiles) :
    LET kv == <<LAYERWRITER, f, "vt">>
        kr == <<LAYERWRITER, f, "regipy">>
    IN sub[d][kv].pc = "done" /\ sub[d][kr].pc = "done" =>
         \E e \in extracted :
           /\ e.path = Path(d, LAYERWRITER, f)
           /\ e.vt_report = sub[d][kv].report
           /\ e.reg_array = sub[d][kr].report

\* C17: every ExtractedDump row is owned by an existing Result, and a
\* run_plugin call whose bulk creation of ExtractedDump rows failed has its
\* Result in Error and never saves Success.
C17_OwnedAndErrorOnDuplicate ==
  /\ \A e \in extracted : \E r \in results : r.pk = e.result
  /\ \A d \in Dumps, n \in installed_plugins :
       task[d][n].exc = "IntegrityError" =>
         /\ ResultOf(d, n).result = RESULT_STATUS_ERROR
         /\ ~InSteps(task[d][n], "success")

\* a restart ran into the rows of the run before it
C17_Witness ==
  \E d \in Dumps :
    /\ task[d][LAYERWRITER].exc = "IntegrityError"
    /\ task[d][LAYERWRITER].pc = "done"
    /\ OwnedBy(d, LAYERWRITER) # {}

\* C18: a run_plugin call whose bulk index submission indexed fewer rows than
\* the batch has its Result saved Error, and the Result stays Error; Success
\* is saved only with the whole batch indexed.
C18_SinkFailureIsError ==
  /\ [](\A d \in Dumps, n \in installed_plugins :
          task[d][n].exc = "BulkIndexError" =>
            ResultOf(d, n).result = RESULT_STATUS_ERROR)
  /\ [][\A d \in Dumps, n \in installed_plugins :
          (task[d][n].pc = "sink" /\ task[d][n]'.pc # "sink") =>
            LET added == Cardinality(Partition(d, n)')
                           - Cardinality(Partition(d, n))
            IN IF added < Len(engine[d][n].rows)
                 THEN /\ ResultOf(d, n)'.result = RESULT_STATUS_ERROR
                      /\ task[d][n]'.exc = "BulkIndexError"
                 ELSE task[d][n]'.exc # "BulkIndexError"]_vars

\* a batch was indexed in part and the call is over
C18_Witness ==
  \E d \in Dumps, n \in installed_plugins :
    /\ task[d][n].exc = "BulkIndexError"
    /\ task[d][n].pc = "done"
    /\ Partition(d, n) # {}

\* C19: a run of unzip_then_run that is running the banner plugin goes on to
\* the gate or ends, whatever the engine does.
C19_BannerBounded ==
  \A d \in DumpIds :
    (d \in Dumps /\ orch[d].pc = "banner")
      ~> (d \in Dumps /\ orch[d].pc \in {"gate", "returned", "raised"})

\* C20: with two dumps on the worker pool, a step of one dump's orchestrator,
\* tasks or sub-tasks leaves the other dump's row, Results and tasks alone,
\* and an orchestrator that returned from its gather has every task it
\* submitted done.
C20_OwnTasksOnly ==
  /\ [](\A a \in Dumps :
          orch[a].pc = "returned" /\ orch[a].gate = "eligible" =>
            \A n \in orch[a].tasks : task[a][n].pc = "done")
  /\ [][\A a, b \in Dumps :
          (/\ a # b
           /\ \/ orch[a]' # orch[a]
              \/ task[a]' # task[a]
              \/ sub[a]' # sub[a])
          => /\ result_set(b)' = result_set(b)
             /\ dumps[b]' = dumps[b]
             /\ orch[b]' = orch[b]
             /\ task[b]' = task[b]]_vars

\* one dump is Completed while a task of the other dump is still running
C20_Witness ==
  \E a, b \in Dumps :
    /\ a # b
    /\ orch[a].pc = "returned"
    /\ dumps[a].status = DUMP_STATUS_COMPLETED
    /\ \E n \in orch[b].tasks : ~Finished(task[b][n])

\* the banners the banner grammar accepts, written without the grammar
WellFormed(banner) ==
  /\ Len(banner) = 6
  /\ banner[1] = "Linux version"
  /\ banner[4] \in {GCC.ubuntu, GCC.debian, GCC.other}
  /\ banner[5] = "#46"

\* C22: the gate of a first run took a Linux dump for eligible if and only
\* if the dump has a banner, the banner is one of the grammar, the symbol
\* finder is there and one of its banners names the kernel of the dump's.
C22_LinuxGate ==
  \A d \in Dumps :
    (/\ dumps[d].operating_system = "Linux"
     /\ orch[d].restart = {}
     /\ orch[d].gate # None)
    => (orch[d].gate = "eligible"
        <=> /\ dumps[d].banner # <<>>
            /\ WellFormed(dumps[d].banner)
            /\ "finder" \notin env
            /\ \E active_banner \in SymbolBanners :
                 /\ active_banner # <<>>
                 /\ active_banner[2] = dumps[d].banner[2])

\* a Linux dump of a known kernel went through the gate and its run returned
C22_Witness ==
  \E d \in Dumps :
    /\ dumps[d].operating_system = "Linux"
    /\ orch[d].restart = {}
    /\ orch[d].gate = "eligible"
    /\ orch[d].pc = "returned"
    /\ dumps[d].banner = BannerOf(KERNEL_KNOWN)

\* C23: a first run that found the dump eligible submitted one task for each
\* plugin of the dump that is enabled and is not the banner plugin, and for
\* no other; the banner plugin of a Linux or Mac dump is not among them.
C23_DispatchedSet ==
  \A d \in Dumps :
    (/\ dumps[d].operating_system \in {"Linux", "Mac"}
     /\ orch[d].restart = {}
     /\ orch[d].gate = "eligible"
     /\ orch[d].pc = "gather")
    => orch[d].tasks =
         {r.plugin : r \in {x \in result_set(d) :
                              /\ x.result # RESULT_STATUS_DISABLED
                              /\ ~PluginByName(x.plugin).disabled
                              /\ x.plugin # BANNERS}}

\* C24: a run that has tasks in flight has a dump that the gate takes for
\* eligible, restart runs included.
C24_DispatchOnlyIfEligible ==
  \A d \in Dumps :
    orch[d].pc = "gather" /\ orch[d].tasks # {} =>
      check_runnable(automagic_available, dumps[d].operating_system,
                     dumps[d].banner)

\* C25: in the first run of a Linux or Mac dump no other plugin has a task
\* before the gate, and at the gate the banner plugin's call is over and the
\* dump's banner is the one of its partition, stripped of the quotes.
C25_BannerBeforeGate ==
  \A d \in Dumps :
    (/\ dumps[d].operating_system \in {"Linux", "Mac"}
     /\ orch[d].restarts = 0
     /\ orch[d].pc \in {"idle", "banner", "gate"})
    => /\ \A n \in available_plugins \ {BANNERS} : task[d][n].pc = "none"
       /\ orch[d].pc = "gate" =>
            /\ task[d][BANNERS].pc = "done"
            /\ ResultOf(d, BANNERS).result # RESULT_STATUS_RUNNING
            /\ Partition(d, BANNERS) # {} =>
                 \E doc \in Partition(d, BANNERS) :
                   dumps[d].banner = Strip(doc.source.Banner)

\* a Mac dump is at the gate with the banner of its partition
C25_Witness ==
  \E d \in Dumps :
    /\ dumps[d].operating_system = "Mac"
    /\ orch[d].restarts = 0
    /\ orch[d].pc = "gate"
    /\ dumps[d].banner = BannerOf(KERNEL_UNKNOWN)

\* the Results the upload view created: Running for the plugins the user
\* has automatic, Disabled for the others
Untouched(d) ==
  \A r \in result_set(d) :
    r.plugin \in installed_plugins =>
      r.result = IF \E up \in BagToSet(user_plugins) :
                      up.plugin = r.plugin /\ up.automatic
                   THEN RESULT_STATUS_RUNNING
                 ELSE RESULT_STATUS_DISABLED

\* C26: of an archive with one file that file is the dump's, whatever its
\* name; of an archive with several files a .vmem of the archive is; with no
\* file, or several and no .vmem, the dump is Error, unzip_then_run returned
\* before the gate, no task was submitted and the Results are as they were.
C26_ArtifactSelection ==
  \A d \in Dumps :
    (orch[d].pc # "idle" /\ orch[d].restarts = 0 /\ orch[d].upload.archive)
    => LET files == orch[d].upload.files
           vmem == {i \in 1..Len(files) : files[i][2] \in {".vmem", ".VMEM"}}
       IN IF Len(files) = 1
            THEN dumps[d].upload = files[1]
                 /\ dumps[d].status # DUMP_STATUS_ERROR
          ELSE IF Len(files) > 1 /\ vmem # {}
            THEN (\E i \in vmem : dumps[d].upload = files[i])
                 /\ dumps[d].status # DUMP_STATUS_ERROR
          ELSE /\ dumps[d].status = DUMP_STATUS_ERROR
               /\ orch[d].pc = "returned"
               /\ orch[d].gate = None
               /\ orch[d].tasks = {}
               /\ \A n \in available_plugins : task[d][n].pc = "none"
               /\ Untouched(d)

\* the .vmem of an archive of two files was taken and the run returned
C26_Witness ==
  \E d \in Dumps :
    /\ orch[d].pc = "returned"
    /\ orch[d].upload = Archive(<<RAW.VMEM, RAW.bin>>)
    /\ dumps[d].upload = RAW.VMEM
    /\ dumps[d].status = DUMP_STATUS_COMPLETED

\* C27: get_path_from_banner never raises: the path it left in a dump that
\* has a banner is a list of one element, a URL or a hint, and the step of an
\* ineligible first run at the gate marks the dump missing-symbols and
\* Completed.
C27_PathNeverRaises ==
  /\ [](\A d \in Dumps :
          /\ orch[d].exc # "get_path_from_banner"
          /\ orch[d].gate = "ineligible" =>
               /\ dumps[d].missing_symbols
               /\ dumps[d].status = DUMP_STATUS_COMPLETED
               /\ dumps[d].banner # <<>> =>
                    /\ Len(dumps[d].suggested_symbols_path) = 1
                    /\ dumps[d].suggested_symbols_path[1].kind
                         \in {"url", "hint"})
  /\ [][\A d \in Dumps :
          (/\ orch[d].pc = "gate"
           /\ orch[d].restart = {}
           /\ orch[d]' # orch[d]
           /\ ~check_runnable(automagic_available,
                              dumps[d].operating_system, dumps[d].banner))
          => /\ orch[d]'.pc = "disable"
             /\ dumps[d]'.missing_symbols
             /\ dumps[d]'.status = DUMP_STATUS_COMPLETED]_vars

\* the package index was unreachable and the run returned with the hint
C27_Witness ==
  \E d \in Dumps :
    /\ orch[d].pc = "returned"
    /\ orch[d].gate = "ineligible"
    /\ dumps[d].suggested_symbols_path = Hint(DOWNLOAD_FAIL)

\* C29: the Result a finished run_plugin left is decided by what happened in
\* the invocation and is never Disabled or Running: an exception that reached
\* the outer handler gives Error with its trace; otherwise unsatisfied
\* requirements give Unsatisfied with the joined descriptions and nothing in
\* the index or in ExtractedDump, a raising engine run gives Error with the
\* trace, zero rows give Empty, and rows that were extracted, fanned out and
\* indexed give Success, the renderer's error as description.
C29_TerminalByOutcome ==
  \A d \in Dumps, n \in available_plugins :
    task[d][n].pc \in {"done", "failed"} =>
      LET o == engine[d][n]
          r == ResultOf(d, n)
      IN /\ r.result \notin {RESULT_STATUS_DISABLED, RESULT_STATUS_RUNNING}
         /\ IF task[d][n].exc # None
              THEN /\ r.result = RESULT_STATUS_ERROR
                   /\ \E excp \in {"ConnectionError", "IntegrityError",
                                    "gather", "TransportError",
                                    "BulkIndexError", "send_to_ws"} :
                        /\ task[d][n].exc = excp
                        /\ r.description =
                             "Traceback (most recent call last):\n" \o excp
            ELSE IF o.kind = "unsatisfied"
              THEN /\ r.result = RESULT_STATUS_UNSATISFIED
                   /\ r.description =
                        "Memory layer for the kernel\nWindows kernel symbols"
                   /\ Partition(d, n) = {}
                   /\ OwnedBy(d, n) = {}
            ELSE IF o.kind = "error"
              THEN /\ r.result = RESULT_STATUS_ERROR
                   /\ r.description =
                        "Traceback (most recent call last):\n"
                          \o "VolatilityException"
            ELSE IF Len(o.rows) = 0
              THEN /\ r.result = RESULT_STATUS_EMPTY
                   /\ r.description = o.error
            ELSE /\ r.result = RESULT_STATUS_SUCCESS
                 /\ r.description = o.error
                 /\ \A k \in task[d][n].tasks : sub[d][k].pc = "done"
                 /\ Cardinality(Partition(d, n)) >= Len(o.rows)

\* one dump has a plugin Unsatisfied with both descriptions and a plugin
\* whose rendering reported an error and is Success
C29_Witness ==
  \E d \in Dumps :
    /\ task[d][LAYERWRITER].pc = "done"
    /\ ResultOf(d, LAYERWRITER).result = RESULT_STATUS_UNSATISFIED
    /\ ResultOf(d, LAYERWRITER).description
         = "Memory layer for the kernel\nWindows kernel symbols"
    /\ task[d][BANNERS].pc = "done"
    /\ ResultOf(d, BANNERS).result = RESULT_STATUS_SUCCESS
    /\ ResultOf(d, BANNERS).description = "InvalidAddressException"

\* C30: a step of the run_plugin invocation for (D, P), or of a sub-task of
\* its fan-out, leaves every Result row but the one of (D, P) as it was,
\* adds and removes no Result row, leaves the Dump rows as they were, and
\* the ExtractedDump rows it creates or updates are owned by that Result.
C30_OneResultRow ==
  [][\A d \in Dumps, n \in available_plugins :
       (/\ orch' = orch
        /\ plugins' = plugins
        /\ \/ task[d][n]' # task[d][n]
           \/ \E k \in SubKeys : k[1] = n /\ sub[d][k]' # sub[d][k])
       => /\ {r \in results : r.dump # d \/ r.plugin # n}'
               = {r \in results : r.dump # d \/ r.plugin # n}
          /\ {r.pk : r \in results}' = {r.pk : r \in results}
          /\ Cardinality(results') = Cardinality(results)
          /\ dumps' = dumps
          /\ \A e \in (extracted' \ extracted) \cup (extracted \ extracted') :
               e.result = ResultOf(d, n).pk]_vars

\* the file-dumping plugin is Success with a row of its own that a sub-task
\* updated, and the banner plugin of the dump is in another state
C30_Witness ==
  \E d \in Dumps :
    /\ task[d][LAYERWRITER].pc = "done"
    /\ ResultOf(d, LAYERWRITER).result = RESULT_STATUS_SUCCESS
    /\ ResultOf(d, BANNERS).result = RESULT_STATUS_EMPTY
    /\ \E e \in OwnedBy(d, LAYERWRITER) : e.vt_report # Null

\* C28: a run_plugin that built its configuration collects files exactly when
\* the plugin has the local-dump flag, and then, params or not, the engine's
\* dump option is true; a plugin without the flag never collects files.
C28_ExtractionEnabled ==
  \A d \in Dumps, n \in available_plugins :
    task[d][n].pc \notin {"none", "start"} =>
      LET plugin_obj == PluginByName(n)
          told == <<"dump", "True">> \in task[d][n].config
      IN /\ task[d][n].local_dump <=> plugin_obj.local_dump
         /\ task[d][n].local_dump <=> told
         /\ task[d][n].local_dump /\ task[d][n].params # NoParams => told

\* C21: on a pool of one thread and of two, every engine and analyzer call
\* terminating, the pool never runs more tasks than it has threads, and
\* eventually every unzip_then_run has returned and every run_plugin and
\* every sub-task that was submitted has run to its end: no task waits for
\* a thread for ever and no gather waits for ever.
C21_NoDeadlock ==
  /\ [](Busy <= Workers)
  /\ <>(\A d \in Dumps :
          /\ orch[d].pc = "returned"
          /\ \A n \in available_plugins : task[d][n].pc \in {"none", "done"}
          /\ \A k \in SubKeys : Finished(sub[d][k]))

\* on a pool of one thread unzip_then_run returned from its gather, the
\* file-dumping plugin from the gather of its fan-out
C21_Witness ==
  \E d \in Dumps :
    /\ Workers = 1
    /\ orch[d].pc = "returned"
    /\ orch[d].gate = "eligible"
    /\ task[d][LAYERWRITER].pc = "done"
    /\ InSteps(task[d][LAYERWRITER], "gather")
    /\ \A k \in task[d][LAYERWRITER].tasks : sub[d][k].pc = "done"
    /\ task[d][LAYERWRITER].tasks # {}

\* C31: a run_plugin invocation that has ended has sent exactly one plugin
\* notification, and it names the dump, the plugin and the outcome stored on
\* the Result (Unsatisfied, Error, Empty or Success); a run that took the
\* ineligible path and disabled the Results has sent its notification too.
C31_OneNotification ==
  /\ \A d \in Dumps, name \in available_plugins :
       task[d][name].pc \in {"done", "failed"} =>
         task[d][name].sent =
           <<[plugin |-> name, dump |-> d,
              status |-> ResultOf(d, name).result]>>
  /\ \A d \in Dumps :
       (orch[d].gate = "ineligible" /\ orch[d].pc \in {"returned", "raised"})
         => Len(orch[d].sent) = 1

\* C32: in a first run the partition of each plugin of the dump, the banner
\* plugin's partition of a Mac dump included, has received at most one bulk
\* submission: it holds no more documents than the plugin rendered rows,
\* every submission drawing fresh ids for the rows it carries.
C32_OneBulkPerRun ==
  \A d \in Dumps, name \in available_plugins :
    orch[d].restarts = 0 =>
      Cardinality(Partition(d, name)) <= Len(engine[d][name].rows)

\* C33: no re-parse sub-task fails, whether the analyzer failed on the file
\* or the ExtractedDump row was not found, and a sub-task that is done after
\* a failed parse has left an error document in the reg_array of the file's
\* row, which a parse that found nothing does not leave.
C33_RegipyFailureRecorded ==
  \A d \in Dumps, k \in SubKeys :
    k[3] = "regipy" =>
      /\ sub[d][k].pc # "failed"
      /\ sub[d][k].pc = "done" =>
           \A e \in ExtractedGet(ResultOf(d, k[1]).pk, Path(d, k[1], k[2])) :
             e.reg_array # Null =>
               (e.reg_array.json = "error" <=> sub[d][k].out = "empty")

C34_Unscanned ==
  \E d \in Dumps :
    /\ task[d][LAYERWRITER].pc = "done"
    /\ InSteps(task[d][LAYERWRITER], "bulk_create")
    /\ ResultOf(d, LAYERWRITER).result = RESULT_STATUS_SUCCESS
    /\ ~PluginByName(LAYERWRITER).clamav_check
    /\ task[d][LAYERWRITER].tasks = {}

\* C35: check_runnable is true for a Windows and for a Mac dump and false
\* for a dump of operating system Other, whatever the banner (none, one of
\* the grammar, or a string that is no banner); and a dump of operating
\* system Other whose run consulted check_runnable (a run that is no
\* restart and came to the gate) and has ended was found ineligible, is
\* Completed, has missing_symbols set and has every Result Disabled.
C35_GateByOperatingSystem ==
  /\ \A d \in Dumps :
       \A banner \in LinuxBanners \cup {<<>>, dumps[d].banner} :
         /\ check_runnable(automagic_available, "Windows", banner)
         /\ check_runnable(automagic_available, "Mac", banner)
         /\ ~check_runnable(automagic_available, "Other", banner)
  /\ \A d \in Dumps :
       (/\ dumps[d].operating_system = "Other"
        /\ orch[d].restart = {}
        /\ orch[d].gate # None
        /\ orch[d].pc \in {"returned", "raised"})
       => /\ orch[d].gate = "ineligible"
          /\ dumps[d].status = DUMP_STATUS_COMPLETED
          /\ dumps[d].missing_symbols
          /\ \A r \in result_set(d) : r.result = RESULT_STATUS_DISABLED

\* the first run of a dump of operating system Other has returned
C35_Witness ==
  \E d \in Dumps :
    /\ dumps[d].operating_system = "Other"
    /\ orch[d].pc = "returned"
    /\ orch[d].gate = "ineligible"
    /\ \E r \in result_set(d) : r.plugin = BANNERS

\* C36: no step of the pipeline, in an initial run or in a restart, changes
\* the row of a Result that is Disabled or starts a run_plugin for it,
\* whether or not the restart names its plugin.
C36_DisabledStays ==
  [][\A r \in results :
       r.result = RESULT_STATUS_DISABLED =>
         /\ r \in results'
         /\ task'[r.dump][r.plugin] = task[r.dump][r.plugin]]_vars

\* C37: when a run_plugin invocation has ended with its Result in Error,
\* Unsatisfied or Empty, the partition of the pair holds no document written
\* by that invocation (in a first run that ran the plugin once, the
\* partition is empty).
C37_NoDocumentsUnlessSuccess ==
  \A d \in Dumps, name \in available_plugins :
    (/\ task[d][name].pc \in {"done", "failed"}
     /\ orch[d].restarts = 0
     /\ ~(dumps[d].operating_system = "Mac" /\ name = BANNERS)
     /\ ResultOf(d, name).result \in
          {RESULT_STATUS_ERROR, RESULT_STATUS_UNSATISFIED,
           RESULT_STATUS_EMPTY})
    => Partition(d, name) = {}

(***************************************************************************)
(* The catalog: plugins_sync and Plugin rows created by hand, on a store   *)
(* of two dumps of any operating systems that holds some of the catalog's  *)
(* plugins and, possibly, a plugin the engine lists no more.               *)
(***************************************************************************)
LEGACY == <<"windows", "legacy", "Legacy">>

InitCatalog ==
  /\ engine \in [DumpIds -> EngineRows]
  /\ \E os \in [DumpIds -> OPERATING_SYSTEM] :
       dumps = [d \in DumpIds |-> [name |-> <<"dump", d>>,
                                   operating_system |-> os[d],
                                   banner |-> <<>>,
                                   upload |-> <<"uploads", d>>,
                                   status |-> DUMP_STATUS_COMPLETED,
                                   missing_symbols |-> FALSE,
                                   sha256 |-> "sha256",
                                   suggested_symbols_path |-> <<>>]]
  /\ \E names \in SUBSET {TIMELINER, PSLIST, LEGACY} :
       /\ plugins = {PluginRow(n) : n \in {BANNERS, LAYERWRITER} \cup names}
       /\ user_plugins = UserPlugins({p.name : p \in plugins}, {TIMELINER})
  /\ \E st \in {RESULT_STATUS_RUNNING, RESULT_STATUS_SUCCESS,
                 RESULT_STATUS_DISABLED} :
       results =
         {[pk |-> (IF d = "d1" THEN 0 ELSE 5)
                  + (CASE p.name = BANNERS -> 1 [] p.name = LAYERWRITER -> 2
                       [] p.name = TIMELINER -> 3 [] p.name = PSLIST -> 4
                       [] OTHER -> 5),
           dump |-> d, plugin |-> p.name, result |-> st,
           description |-> None] :
            <<d, p>> \in {x \in Dumps \X plugins :
                            x[2].operating_system
                              \in {dumps[x[1]].operating_system, "Other"}}}
  /\ extracted = {}
  /\ es = {}
  /\ es_settings = {}
  /\ orch = [d \in Dumps |-> [pc |-> "returned", restart |-> {},
                              tasks |-> {}, restarts |-> 0, exc |-> None,
                              gate |-> None, faults |-> {}, prev |-> NoPrev,
                              completed |-> 1, upload |-> None,
                              sent |-> <<>>]]
  /\ task = [d \in Dumps |-> [n \in available_plugins |-> NoTask]]
  /\ sub = [d \in Dumps |-> [k \in SubKeys |-> NoSub]]
  /\ env = {"sync"}

SyncNext ==
  \/ plugins_sync
  \/ \E name \in available_plugins, operating_system \in OPERATING_SYSTEM :
       plugin_add(name, operating_system)

SyncSpec == InitCatalog /\ [][SyncNext]_vars

\* C38: a step that stores new Plugin rows, plugins_sync or a row created
\* by hand, leaves each new plugin with exactly one Result, Disabled, in every
\* dump of the plugin's operating system, and in every dump when the
\* plugin's operating system is Other, and with no Result in any other dump;
\* and every Result row there was is still there as it was.
C38_NewPluginResults ==
  [][\A q \in plugins' :
       (\A p \in plugins : p.name # q.name) =>
         /\ \A d \in Dumps :
              LET rs == {r \in results' : r.dump = d /\ r.plugin = q.name}
              IN IF q.operating_system
                      \in {dumps[d].operating_system, "Other"}
                   THEN /\ Cardinality(rs) = 1
                        /\ \A r \in rs : r.result = RESULT_STATUS_DISABLED
                   ELSE rs = {}
         /\ results \subseteq results']_vars

\* plugins_sync added the timeliner (Other) to both dumps and the Linux
\* process list to one of them only, while the Results there were stayed
\* Success
C38_Witness ==
  /\ \A d \in Dumps :
       /\ ResultOf(d, BANNERS).result = RESULT_STATUS_SUCCESS
       /\ \E r \in result_set(d) :
            r.plugin = TIMELINER /\ r.result = RESULT_STATUS_DISABLED
  /\ \E d \in Dumps :
       \E r \in result_set(d) :
         r.plugin = PSLIST /\ r.result = RESULT_STATUS_DISABLED
  /\ \E d \in Dumps : ~HasResult(d, PSLIST)

\* C39: a step that does what plugins_sync does deletes no Plugin row: every
\* stored plugin is kept as it was, but disabled when the catalog does not
\* list it; every plugin of the catalog is stored, the ones that were not
\* with the operating system of their name prefix (linux, windows, mac, else
\* Other); every user has exactly one UserPlugin for every plugin of the
\* catalog; and the command run again on the store it left changes nothing.
C39_SyncIdempotent ==
  [][<<plugins', results', user_plugins'>>
       = handle(not_available(plugins), results, user_plugins,
                available_plugins)
     => /\ \A p \in plugins :
             [p EXCEPT !.disabled = @ \/ p.name \notin available_plugins]
               \in plugins'
        /\ \A n \in available_plugins :
             \E q \in plugins' :
               /\ q.name = n
               /\ (\A p \in plugins : p.name # n) =>
                    q.operating_system =
                      CASE n[1] = "linux" -> "Linux"
                        [] n[1] = "windows" -> "Windows"
                        [] n[1] = "mac" -> "Mac"
                        [] OTHER -> "Other"
        /\ Cardinality(plugins')
             = Cardinality({p.name : p \in plugins} \cup available_plugins)
        /\ \A u \in Users, n \in available_plugins :
             CopiesIn([user |-> u, plugin |-> n, automatic |-> TRUE],
                      user_plugins')
               + CopiesIn([user |-> u, plugin |-> n, automatic |-> FALSE],
                          user_plugins') = 1
        /\ handle(not_available(plugins'), results', user_plugins',
                  available_plugins)
             = <<plugins', results', user_plugins'>>]_vars

\* plugins_sync ran on a store that held a plugin the catalog lists no more
\* and lacked two plugins of the catalog
C39_Witness ==
  /\ \E p \in plugins : p.name = LEGACY /\ p.disabled
  /\ \E p \in plugins : p.name = PSLIST /\ p.operating_system = "Linux"
  /\ \E p \in plugins : p.name = TIMELINER
  /\ \E d \in Dumps :
       /\ ResultOf(d, BANNERS).result = RESULT_STATUS_SUCCESS
       /\ \E r \in result_set(d) :
            r.plugin = TIMELINER /\ r.result = RESULT_STATUS_DISABLED
  /\ \A u \in Users :
       CopiesIn([user |-> u, plugin |-> PSLIST, automatic |-> FALSE],
                user_plugins) = 1

====
